---- MODULE Spec2Model ----
(***************************************************************************)
(* Model of the build-log analysis pipeline: rule classifier               *)
(* (classification/rules.py), commit attributor                            *)
(* (attribution/commit_attributor.py), summarizer                          *)
(* (summarization/summarizer.py) and the optional statistical classifier   *)
(* (classification/ml_model.py).                                           *)
(*                                                                         *)
(* Python strings are sequences of one-character strings, so that regular  *)
(* expression search, str.replace, str.lower and slicing are computed      *)
(* character by character.  Category names and labels, which the code only *)
(* compares and joins, are TLA+ strings.                                   *)
(***************************************************************************)
EXTENDS Integers, Sequences, FiniteSets, TLC

VARIABLES
    events,       \* List[NormalizedEvent] handed to classify/summarize/attribute
    pc,           \* position of the single-threaded call under analysis
    rules,        \* RuleClassifier.rules, a dict kept in insertion order
    loadOutcome,  \* how the last _load_taxonomy call ended
    taxonomyFile, \* what self.taxonomy_file held when it was last loaded
    ruleResult,   \* ClassificationResult returned by RuleClassifier.classify
    commits,      \* List[CommitInfo] handed to CommitAttributor.attribute
    evidence,     \* stack_files, test_names, has_network_issues of that call
    commitScores, \* its commit_scores list, before sorting
    attribution,  \* Optional[AttributionResult] it returned
    summary,      \* SummaryResult returned by LogSummarizer.summarize
    available,    \* MLClassifier.available
    enableMl,     \* whether os.getenv("ENABLE_ML", "0") == "1"
    ml,           \* MLClassifier's vectorizer, label_encoder, model and trained
    trainCalls,   \* number of MLClassifier.train calls made so far
    trainInput,   \* training_data of the last train call
    trainOutcome, \* how the last train call ended
    mlResult,     \* ClassificationResult returned by MLClassifier.classify
    rawLog,       \* raw_log handed to LogNormalizer.normalize
    again,        \* what normalize returns for the text of one of its events
    mlEnabled,    \* ML_ENABLED of main.py, read from the environment at import
    record,       \* BuildRecord stored and summary returned by ingest_build
    scan,         \* a RuleClassifier.classify call in progress in one thread
    load          \* a RuleClassifier._load_taxonomy call in progress in another

ruleVars == <<rules, loadOutcome, taxonomyFile, ruleResult>>
attrVars == <<commits, evidence, commitScores, attribution>>
mlVars == <<available, enableMl, ml, trainCalls, trainInput, trainOutcome, mlResult>>
normVars == <<rawLog, again>>
ingestVars == <<mlEnabled, record>>
concVars == <<scan, load>>
restVars == <<normVars, ingestVars, concVars>>
vars == <<events, pc, ruleVars, attrVars, summary, mlVars, restVars>>

\* Python's None, for values that are otherwise records; an Optional[str] that
\* is present is Some(string)
None == [none |-> TRUE]
Some(value) == [some |-> value]

(***************************************************************************)
(* Bounds of the model.                                                    *)
(***************************************************************************)
MaxEvents == 2

(***************************************************************************)
(* Character-level string operations.                                      *)
(***************************************************************************)
LowerTable ==
    [c \in {"A","B","C","D","E","F","G","H","I","J","K","L","M","N","O","P",
            "Q","R","S","T","U","V","W","X","Y","Z"} |->
        CASE c = "A" -> "a" [] c = "B" -> "b" [] c = "C" -> "c" [] c = "D" -> "d"
          [] c = "E" -> "e" [] c = "F" -> "f" [] c = "G" -> "g" [] c = "H" -> "h"
          [] c = "I" -> "i" [] c = "J" -> "j" [] c = "K" -> "k" [] c = "L" -> "l"
          [] c = "M" -> "m" [] c = "N" -> "n" [] c = "O" -> "o" [] c = "P" -> "p"
          [] c = "Q" -> "q" [] c = "R" -> "r" [] c = "S" -> "s" [] c = "T" -> "t"
          [] c = "U" -> "u" [] c = "V" -> "v" [] c = "W" -> "w" [] c = "X" -> "x"
          [] c = "Y" -> "y" [] c = "Z" -> "z"]

\* str.lower() on one character
LowerChar(c) == IF c \in DOMAIN LowerTable THEN LowerTable[c] ELSE c

\* str.lower()
Lower(s) == [i \in 1..Len(s) |-> LowerChar(s[i])]

\* s[i:].startswith(lit), 1-based i
StartsWithAt(s, i, lit) ==
    /\ i >= 1
    /\ i + Len(lit) - 1 <= Len(s)
    /\ \A k \in 1..Len(lit) : s[i + k - 1] = lit[k]

\* Python's `lit in s`
Contains(s, lit) == \E i \in 1..(Len(s) + 1) : StartsWithAt(s, i, lit)

\* s.endswith(suffix)
EndsWith(s, suffix) ==
    /\ Len(suffix) <= Len(s)
    /\ StartsWithAt(s, Len(s) - Len(suffix) + 1, suffix)

RECURSIVE SumSeq(_)
SumSeq(s) == IF s = <<>> THEN 0 ELSE Head(s) + SumSeq(Tail(s))

(***************************************************************************)
(* Regular expressions of the rule classifier.  Every pattern the code     *)
(* compiles is either an escaped literal or two literals joined by `.*`,   *)
(* so a compiled pattern is the sequence of its literal parts; it is       *)
(* compiled with re.IGNORECASE, modelled by lower-casing parts and text.   *)
(***************************************************************************)
Compile(parts) == [k \in 1..Len(parts) |-> Lower(parts[k])]

\* pattern.search(text): part 1 somewhere, each further part anywhere after it
RECURSIVE SearchFrom(_, _, _)
SearchFrom(pattern, text, from) ==
    IF pattern = <<>> THEN TRUE
    ELSE \E i \in from..(Len(text) + 1) :
            /\ StartsWithAt(text, i, Head(pattern))
            /\ SearchFrom(Tail(pattern), text, i + Len(Head(pattern)))

Search(pattern, text) == SearchFrom(pattern, Lower(text), 1)

(***************************************************************************)
(* RuleClassifier: the rule set.  A dict is a sequence of entries in       *)
(* insertion order; assigning to an existing key keeps its position.       *)
(***************************************************************************)
Keys(d) == [k \in 1..Len(d) |-> d[k].category]

HasKey(d, key) == \E k \in 1..Len(d) : d[k].category = key

\* d[key] = entry
DictSet(d, entry) ==
    IF HasKey(d, entry.category)
    THEN [k \in 1..Len(d) |-> IF d[k].category = entry.category THEN entry ELSE d[k]]
    ELSE Append(d, entry)

\* RuleClassifier._build_default_taxonomy: the rule set it assigns to self.rules
DefaultTaxonomy ==
    << [category |-> "Test:Failure:Assertion", weight |-> 2, patterns |->
          << Compile(<<<<"A","s","s","e","r","t","i","o","n","E","r","r","o","r">>>>),
             Compile(<<<<"a","s","s","e","r","t">>, <<"f","a","i","l","e","d">>>>),
             Compile(<<<<"e","x","p","e","c","t","e","d">>, <<"g","o","t">>>>),
             Compile(<<<<"a","s","s","e","r","t","i","o","n">>, <<"f","a","i","l","e","d">>>>) >>],
       [category |-> "Test:Failure:Timeout", weight |-> 2, patterns |->
          << Compile(<<<<"t","i","m","e","o","u","t">>>>),
             Compile(<<<<"t","i","m","e","d"," ","o","u","t">>>>),
             Compile(<<<<"T","i","m","e","o","u","t","E","x","c","e","p","t","i","o","n">>>>) >>],
       [category |-> "Infra:Network:Timeout", weight |-> 2, patterns |->
          << Compile(<<<<"c","o","n","n","e","c","t","i","o","n">>, <<"t","i","m","e","o","u","t">>>>),
             Compile(<<<<"n","e","t","w","o","r","k">>, <<"t","i","m","e","o","u","t">>>>),
             Compile(<<<<"r","e","a","d"," ","t","i","m","e","d"," ","o","u","t">>>>) >>],
       [category |-> "Build:Compilation:Error", weight |-> 2, patterns |->
          << Compile(<<<<"c","o","m","p","i","l","a","t","i","o","n">>, <<"f","a","i","l","e","d">>>>),
             Compile(<<<<"b","u","i","l","d">>, <<"f","a","i","l","e","d">>>>),
             Compile(<<<<"c","o","m","p","i","l","e">>, <<"e","r","r","o","r">>>>) >>],
       [category |-> "UNCLASSIFIED", weight |-> 1, patterns |->
          << Compile(<<<<"e","r","r","o","r">>>>),
             Compile(<<<<"e","x","c","e","p","t","i","o","n">>>>),
             Compile(<<<<"f","a","i","l","e","d">>>>) >>] >>

\* RuleClassifier._create_rules_for_indicators: one escaped literal per indicator
CreateRulesForIndicators(d, path, indicators) ==
    DictSet(d, [category |-> path, weight |-> 2,
                patterns |-> [k \in 1..Len(indicators) |-> Compile(<<indicators[k]>>)]])

\* 'indicators' in value, for a mapping node
HasIndicators(node) == \E k \in 1..Len(node.items) : node.items[k].key = "indicators"

\* value['indicators']
IndicatorsOf(node) ==
    node.items[CHOOSE k \in 1..Len(node.items) : node.items[k].key = "indicators"].value.items

\* RuleClassifier._build_rules_from_taxonomy over taxonomy.items()
RECURSIVE BuildRulesFromTaxonomy(_, _, _)
BuildRulesFromTaxonomy(d, items, prefix) ==
    IF items = <<>> THEN d
    ELSE LET key == Head(items).key
             value == Head(items).value
             current_path == IF prefix # "" THEN prefix \o ":" \o key ELSE key
             d1 == IF value.type = "dict"
                   THEN IF HasIndicators(value)
                        THEN CreateRulesForIndicators(d, current_path, IndicatorsOf(value))
                        ELSE BuildRulesFromTaxonomy(d, value.items, current_path)
                   ELSE IF value.type = "list"
                        THEN CreateRulesForIndicators(d, current_path, value.items)
                        ELSE d
         IN  BuildRulesFromTaxonomy(d1, Tail(items), prefix)

\* Contents the taxonomy file can have when it is opened.
Leaf(indicators) == [type |-> "list", items |-> indicators]
Node(items) == [type |-> "dict", items |-> items]
Item(key, value) == [key |-> key, value |-> value]

FileMissing == [kind |-> "missing"]
FileMalformed == [kind |-> "malformed"]
FileEmpty == [kind |-> "empty"]
FileDenied == [kind |-> "denied"]
\* a document whose top level is a sequence, "- timeout"
FileNotMapping == [kind |-> "sequence"]

\* Infra: {Network: {indicators: [timeout, refused]}}, Test: {Failure: [assert]}
TaxonomyA ==
    [kind |-> "yaml", doc |-> Node(<<
        Item("Infra", Node(<< Item("Network", Node(<<
            Item("indicators", Leaf(<< <<"t","i","m","e","o","u","t">>, <<"r","e","f","u","s","e","d">> >>)) >>)) >>)),
        Item("Test", Node(<< Item("Failure", Leaf(<< <<"a","s","s","e","r","t">> >>)) >>)) >>)]

\* Build: {indicators: [FAILED, error]}, owner: ci
TaxonomyB ==
    [kind |-> "yaml", doc |-> Node(<<
        Item("Build", Node(<< Item("indicators", Leaf(<< <<"F","A","I","L","E","D">>, <<"e","r","r","o","r">> >>)) >>)),
        Item("owner", [type |-> "str"]) >>)]

TaxonomyFiles ==
    {FileMissing, FileDenied, FileMalformed, FileEmpty, FileNotMapping, TaxonomyA, TaxonomyB}

\* RuleClassifier._load_taxonomy: the rule set afterwards and how the call ended.
\* open raises PermissionError on a file that may not be read; yaml.safe_load
\* raises on malformed text, returns None for an empty file and a list for a
\* sequence (neither has items(): AttributeError); only FileNotFoundError is
\* caught.
LoadTaxonomy(d, file) ==
    CASE file.kind = "missing"   -> [rules |-> DefaultTaxonomy, outcome |-> "ok"]
      [] file.kind = "denied"    -> [rules |-> d, outcome |-> "PermissionError"]
      [] file.kind = "malformed" -> [rules |-> d, outcome |-> "YAMLError"]
      [] file.kind = "empty"     -> [rules |-> d, outcome |-> "AttributeError"]
      [] file.kind = "sequence"  -> [rules |-> d, outcome |-> "AttributeError"]
      [] file.kind = "yaml"      ->
            [rules |-> BuildRulesFromTaxonomy(d, file.doc.items, ""), outcome |-> "ok"]

(***************************************************************************)
(* RuleClassifier.classify                                                 *)
(***************************************************************************)
\* as CountMatches, but a category counts once however many patterns match
CountMatchesOnce(patterns, text) ==
    IF \E k \in 1..Len(patterns) : Search(patterns[k], text) THEN 1 ELSE 0

\* number of patterns of one category that match the text
CountMatches(patterns, text) ==
    Cardinality({k \in 1..Len(patterns) : Search(patterns[k], text)})

\* the scoring loop: scores[category] += weight for every matching pattern
RECURSIVE ScoreEvents(_, _, _)
ScoreEvents(d, evs, scores) ==
    IF evs = <<>> THEN scores
    ELSE LET text == Head(evs).text
             next == IF text = <<>> THEN scores
                     ELSE [k \in 1..Len(d) |->
                             scores[k] + d[k].weight * CountMatches(d[k].patterns, text)]
         IN  ScoreEvents(d, Tail(evs), next)

\* as ArgMaxFirst, but the last key holding the maximum
ArgMaxLast(scores) ==
    CHOOSE k \in 1..Len(scores) :
        /\ \A j \in 1..Len(scores) : scores[j] <= scores[k]
        /\ \A j \in (k + 1)..Len(scores) : scores[j] < scores[k]

\* max(scores.keys(), key=...): the first key holding the maximum
ArgMaxFirst(scores) ==
    CHOOSE k \in 1..Len(scores) :
        /\ \A j \in 1..Len(scores) : scores[j] <= scores[k]
        /\ \A j \in 1..(k - 1) : scores[j] < scores[k]

\* as Classify, but without the "no matches found" branch
ClassifyNoZeroBranch(d, evs) ==
    LET scores == ScoreEvents(d, evs, [k \in 1..Len(d) |-> 0])
        best == ArgMaxFirst(scores)
        total_score == SumSeq(scores)
    IN  [label |-> d[best].category,
         confidence |-> IF total_score > 0
                        THEN [num |-> scores[best], den |-> total_score]
                        ELSE [num |-> 0, den |-> 1],
         scores |-> [k \in 1..Len(d) |-> [category |-> d[k].category, score |-> scores[k]]]]

Classify(d, evs) ==
    LET scores == ScoreEvents(d, evs, [k \in 1..Len(d) |-> 0])
        scoreMap == [k \in 1..Len(d) |-> [category |-> d[k].category, score |-> scores[k]]]
    IN  IF \A k \in 1..Len(scores) : scores[k] = 0
        THEN [label |-> "UNCLASSIFIED", confidence |-> [num |-> 0, den |-> 1],
              scores |-> scoreMap]
        ELSE LET best == ArgMaxFirst(scores)
                 best_score == scores[best]
                 total_score == SumSeq(scores)
             IN  [label |-> d[best].category,
                  confidence |-> IF total_score > 0
                                 THEN [num |-> best_score, den |-> total_score]
                                 ELSE [num |-> 0, den |-> 1],
                  scores |-> scoreMap]

(***************************************************************************)
(* Values of the variables of the components a specification leaves out.   *)
(***************************************************************************)
AttrIdle ==
    /\ commits = <<>>
    /\ evidence = None
    /\ commitScores = <<>>
    /\ attribution = None

RulesIdle ==
    /\ rules = <<>>
    /\ loadOutcome = "ok"
    /\ taxonomyFile = FileMissing
    /\ ruleResult = None

\* LogNormalizer.normalize (not called)
NormIdle ==
    /\ rawLog = <<>>
    /\ again = None

\* ingest_build (not called)
IngestIdle ==
    /\ mlEnabled = FALSE
    /\ record = None

\* no call in progress in another thread
ConcIdle ==
    /\ scan = None
    /\ load = None

RestIdle == NormIdle /\ IngestIdle /\ ConcIdle

\* MLClassifier.__init__, on a host without the optional libraries
Untrained == [vectorizer |-> None, label_encoder |-> None, model |-> None, trained |-> FALSE]

MlIdle ==
    /\ available = FALSE
    /\ enableMl = FALSE
    /\ ml = Untrained
    /\ trainCalls = 0
    /\ trainInput = <<>>
    /\ trainOutcome = "none"
    /\ mlResult = None

(***************************************************************************)
(* Inputs of the rule classifier.                                          *)
(***************************************************************************)
Event(i, t) == [index |-> i, timestamp |-> None, level |-> None, text |-> t]

TextScenarioA == <<"A","s","s","e","r","t","i","o","n","E","r","r","o","r",":"," ","e","x","p","e","c","t","e","d"," ","5"," ","g","o","t"," ","3">>
TextError == <<"e","r","r","o","r">>
TextConnTimeout == <<"c","o","n","n","e","c","t","i","o","n"," ","t","i","m","e","o","u","t">>
TextBuildFailed == <<"B","u","i","l","d"," ","F","A","I","L","E","D">>
TextPassed == <<"a","l","l"," ","t","e","s","t","s"," ","p","a","s","s","e","d">>

RuleTexts == {TextScenarioA, TextError, TextConnTimeout, TextBuildFailed, TextPassed, <<>>}

\* event lists of at most n events whose texts come from `texts`
EventLists(texts, n) ==
    UNION {{[i \in 1..m |-> Event(i - 1, f[i])] : f \in [1..m -> texts]} : m \in 0..n}

(***************************************************************************)
(* The rule classifier as a state machine: constructed over some taxonomy  *)
(* file, then reloaded and asked to classify in any order.                 *)
(***************************************************************************)
InitRules ==
    /\ events \in EventLists(RuleTexts, MaxEvents)
    /\ pc = "constructed"
    /\ taxonomyFile \in {FileMissing, TaxonomyA, TaxonomyB}
    /\ rules = LoadTaxonomy(<<>>, taxonomyFile).rules
    /\ loadOutcome = "ok"
    /\ ruleResult = None
    /\ AttrIdle
    /\ summary = None
    /\ MlIdle
    /\ RestIdle

\* RuleClassifier.reload_taxonomy, the file being whatever it is at that time
ReloadTaxonomy ==
    \E file \in TaxonomyFiles :
        /\ rules' = LoadTaxonomy(rules, file).rules
        /\ loadOutcome' = LoadTaxonomy(rules, file).outcome
        /\ taxonomyFile' = file
        /\ pc' = "reloaded"
        /\ UNCHANGED <<restVars, events, ruleResult, attrVars, summary, mlVars>>

\* RuleClassifier.classify(events)
RuleClassify ==
    /\ ruleResult' = Classify(rules, events)
    /\ pc' = "classified"
    /\ UNCHANGED <<restVars, events, rules, loadOutcome, taxonomyFile, attrVars, summary, mlVars>>

NextRules == ReloadTaxonomy \/ RuleClassify

SpecRules == InitRules /\ [][NextRules]_vars

(***************************************************************************)
(* Character classes and scanning helpers of the regular expressions used  *)
(* by the attributor and the summarizer.                                   *)
(***************************************************************************)
Whitespace == {" ", "\t"}
Digits == {"0","1","2","3","4","5","6","7","8","9"}
UpperLetters == DOMAIN LowerTable
LowerLetters == {LowerTable[c] : c \in UpperLetters}
Letters == UpperLetters \cup LowerLetters
\* [a-zA-Z0-9_], the ASCII part of \w
WordChars == Letters \cup Digits \cup {"_"}

Min(set) == CHOOSE x \in set : \A y \in set : x <= y
Max(set) == CHOOSE x \in set : \A y \in set : x >= y

\* least member of a set of indices, 0 if none: where a left-to-right scan stops
FirstOf(hits) == IF hits = {} THEN 0 ELSE Min(hits)

\* first index >= i whose character is not in `class`, Len(s) + 1 if none
SkipClass(s, i, class) ==
    LET hits == {j \in i..Len(s) : s[j] \notin class}
    IN  IF hits = {} THEN (IF i > Len(s) THEN i ELSE Len(s) + 1) ELSE Min(hits)

\* first index >= i holding character c, 0 if none
IndexOfChar(s, i, c) == FirstOf({j \in i..Len(s) : s[j] = c})

\* s[i-1:j-1] of Python for 1-based i <= j
Slice(s, i, j) == SubSeq(s, i, j - 1)

\* str.strip()
Strip(s) ==
    LET kept == {j \in 1..Len(s) : s[j] \notin Whitespace}
    IN  IF kept = {} THEN <<>> ELSE SubSeq(s, Min(kept), Max(kept))

\* str.replace(old, new): every non-overlapping occurrence, left to right
RECURSIVE ReplaceFrom(_, _, _, _)
ReplaceFrom(s, i, old, new) ==
    LET at == FirstOf({j \in i..Len(s) : StartsWithAt(s, j, old)})
    IN  IF at = 0 THEN SubSeq(s, i, Len(s))
        ELSE SubSeq(s, i, at - 1) \o new \o ReplaceFrom(s, at + Len(old), old, new)

Replace(s, old, new) == ReplaceFrom(s, 1, old, new)

\* s.split('/')[-1]
LastSegment(s) ==
    LET slashes == {j \in 1..Len(s) : s[j] = "/"}
    IN  IF slashes = {} THEN s ELSE SubSeq(s, Max(slashes) + 1, Len(s))

\* the permutations of a finite set, as sequences: the orders list(set) can give
Orders(set) ==
    {f \in [1..Cardinality(set) -> set] : \A a, b \in 1..Cardinality(set) : f[a] = f[b] => a = b}

(***************************************************************************)
(* CommitAttributor: evidence extraction.                                  *)
(***************************************************************************)
\* file_path_pattern, File\s+"([^"]+)" with re.IGNORECASE, matched at i:
\* the indices of the two quotes, <<>> if there is no match at i
FilePathAt(text, i) ==
    LET q1 == SkipClass(text, i + 4, Whitespace)
        q2 == IndexOfChar(text, q1 + 1, "\"")
    IN  IF /\ StartsWithAt(Lower(text), i, <<"f","i","l","e">>)
           /\ q1 > i + 4
           /\ q1 <= Len(text)
           /\ text[q1] = "\""
           /\ q2 > q1 + 1
        THEN <<q1, q2>> ELSE <<>>

\* file_path_pattern.findall(text[i:])
RECURSIVE FindAllFilePaths(_, _)
FindAllFilePaths(text, i) ==
    LET at == FirstOf({j \in i..Len(text) : FilePathAt(text, j) # <<>>})
    IN  IF at = 0 THEN <<>>
        ELSE LET q == FilePathAt(text, at)
             IN  <<Slice(text, q[1] + 1, q[2])>> \o FindAllFilePaths(text, q[2] + 1)

\* stack_trace_pattern, \s+at\s+([^(]+)\(([^)]+)\) with re.IGNORECASE, matched
\* at i: the indices of the two parentheses, <<>> if there is no match at i
LocationAt(text, i) ==
    LET at == SkipClass(text, i, Whitespace)
        open == IndexOfChar(text, at + 3, "(")
        close == IF open = 0 THEN 0 ELSE IndexOfChar(text, open + 1, ")")
    IN  IF /\ at > i
           /\ StartsWithAt(Lower(text), at, <<"a","t">>)
           /\ at + 2 <= Len(text)
           /\ text[at + 2] \in Whitespace
           /\ open >= at + 4
           /\ close >= open + 2
        THEN <<open, close>> ELSE <<>>

\* stack_trace_pattern.findall(text[i:]); only the second group (location) is
\* used by the caller
RECURSIVE FindAllLocations(_, _)
FindAllLocations(text, i) ==
    LET at == FirstOf({j \in i..Len(text) : LocationAt(text, j) # <<>>})
    IN  IF at = 0 THEN <<>>
        ELSE LET q == LocationAt(text, at)
             IN  <<Slice(text, q[1] + 1, q[2])>> \o FindAllLocations(text, q[2] + 1)

\* test_name_pattern, test_[a-zA-Z_][a-zA-Z0-9_]*, matches at i; `cased` is
\* the text itself, or its lower-casing under re.IGNORECASE
TestNameAt(text, cased, i) ==
    /\ StartsWithAt(cased, i, <<"t","e","s","t","_">>)
    /\ i + 5 <= Len(text)
    /\ text[i + 5] \in Letters \cup {"_"}

\* test_name_pattern.findall(text[i:])
RECURSIVE FindAllTestNames(_, _, _)
FindAllTestNames(text, cased, i) ==
    LET at == FirstOf({j \in i..Len(text) : TestNameAt(text, cased, j)})
    IN  IF at = 0 THEN <<>>
        ELSE LET e == SkipClass(text, at + 6, WordChars)
             IN  <<Slice(text, at, e)>> \o FindAllTestNames(text, cased, e)

Range(seq) == {seq[k] : k \in 1..Len(seq)}

\* the `potential_file` values of one event's Java-style stack lines
JavaFiles(text) ==
    {Replace(loc, <<".">>, <<"/">>) \o <<".","j","a","v","a">> :
        loc \in {l \in Range(FindAllLocations(text, 1)) : Contains(l, <<".">>)}}

\* CommitAttributor._extract_stack_trace_files: the set `files`
ExtractStackTraceFiles(evs) ==
    UNION {{Strip(f) : f \in Range(FindAllFilePaths(evs[k].text, 1))} \cup JavaFiles(evs[k].text) :
              k \in {j \in 1..Len(evs) : evs[j].text # <<>>}}

\* CommitAttributor._extract_test_names: the set `tests`
ExtractTestNames(evs) ==
    UNION {Range(FindAllTestNames(evs[k].text, evs[k].text, 1)) :
              k \in {j \in 1..Len(evs) : evs[j].text # <<>>}}

\* self.network_keywords
NetworkKeywords ==
    {<<"t","i","m","e","o","u","t">>, <<"c","o","n","n","e","c","t","i","o","n">>, <<"n","e","t","w","o","r","k">>,
     <<"s","o","c","k","e","t">>, <<"h","t","t","p">>, <<"s","s","l">>}

\* CommitAttributor._detect_network_issues
DetectNetworkIssues(evs) ==
    \E k \in 1..Len(evs) :
        /\ evs[k].text # <<>>
        /\ \E keyword \in NetworkKeywords : Contains(Lower(evs[k].text), keyword)

(***************************************************************************)
(* CommitAttributor: scoring and selection.                                *)
(***************************************************************************)
\* CommitAttributor._files_match
FilesMatch(stack_file, changed_file) ==
    LET stack_normalized == Lower(Replace(stack_file, <<"\\">>, <<"/">>))
        changed_normalized == Lower(Replace(changed_file, <<"\\">>, <<"/">>))
    IN  \/ stack_normalized = changed_normalized
        \/ EndsWith(stack_normalized, changed_normalized)
        \/ EndsWith(changed_normalized, stack_normalized)
        \/ LastSegment(stack_normalized) = LastSegment(changed_normalized)

\* test_name.replace('test_', '')
TestStem(test_name) == Replace(test_name, <<"t","e","s","t","_">>, <<>>)

\* test_stem.lower() in changed_file.lower()
StemInFile(test_name, changed_file) ==
    Contains(Lower(changed_file), Lower(TestStem(test_name)))

\* network_related_files in _score_commit
NetworkRelatedFiles ==
    {<<"n","e","t","w","o","r","k">>, <<"h","t","t","p">>, <<"s","o","c","k","e","t">>, <<"c","o","n","n","e","c","t","i","o","n">>, <<"t","i","m","e","o","u","t">>, <<"r","e","t","r","y">>}

\* the inner loops of _score_commit over commit.changed_files
RECURSIVE StackFilePoints(_, _)
StackFilePoints(stack_file, changed_files) ==
    IF changed_files = <<>> THEN 0
    ELSE (IF FilesMatch(stack_file, Head(changed_files)) THEN 3 ELSE 0)
         + StackFilePoints(stack_file, Tail(changed_files))

RECURSIVE TestNamePoints(_, _)
TestNamePoints(test_name, changed_files) ==
    IF changed_files = <<>> THEN 0
    ELSE (IF StemInFile(test_name, Head(changed_files)) THEN 2 ELSE 0)
         + TestNamePoints(test_name, Tail(changed_files))

\* as NetworkPoints, but without the `break`: one point per keyword in the path
NetworkPointsPerKeyword(changed_files) ==
    SumSeq([k \in 1..Len(changed_files) |->
        Cardinality({term \in NetworkRelatedFiles : Contains(Lower(changed_files[k]), term)})])

\* the network bonus loop: one point per changed file holding some keyword
NetworkPoints(changed_files) ==
    SumSeq([k \in 1..Len(changed_files) |->
        IF \E term \in NetworkRelatedFiles : Contains(Lower(changed_files[k]), term)
        THEN 1 ELSE 0])

\* CommitAttributor._score_commit; stack_files and test_names are the lists
\* made from the extracted sets
ScoreCommit(commit, stack_files, test_names, has_network_issues) ==
    SumSeq([k \in 1..Len(stack_files) |-> StackFilePoints(stack_files[k], commit.changed_files)])
    + SumSeq([k \in 1..Len(test_names) |-> TestNamePoints(test_names[k], commit.changed_files)])
    + (IF has_network_issues THEN NetworkPoints(commit.changed_files) ELSE 0)

\* CommitAttributor._find_matching_tests
FindMatchingTests(commit, test_names) ==
    SelectSeq(test_names,
        LAMBDA t : \E k \in 1..Len(commit.changed_files) : StemInFile(t, commit.changed_files[k]))

\* list.sort(key=score, reverse=True): stable, equal scores keep their order
RECURSIVE SortByScoreDesc(_)
SortByScoreDesc(pairs) ==
    IF pairs = <<>> THEN <<>>
    ELSE LET front == SortByScoreDesc(SubSeq(pairs, 1, Len(pairs) - 1))
             last == pairs[Len(pairs)]
             pos == Cardinality({j \in 1..Len(front) : front[j].score >= last.score})
         IN  SubSeq(front, 1, pos) \o <<last>> \o SubSeq(front, pos + 1, Len(front))

\* as SelectBest, but a best score of 0 still yields a result
SelectBestAnyScore(commit_scores, test_names) ==
    LET sorted == SortByScoreDesc(commit_scores)
    IN  IF sorted # <<>>
        THEN [sha |-> sorted[1].commit.sha, author |-> sorted[1].commit.author,
              score |-> sorted[1].score, changed_files |-> sorted[1].commit.changed_files,
              tests_detected |-> FindMatchingTests(sorted[1].commit, test_names)]
        ELSE None

\* the selection at the end of CommitAttributor.attribute
SelectBest(commit_scores, test_names) ==
    LET sorted == SortByScoreDesc(commit_scores)
    IN  IF sorted # <<>> /\ sorted[1].score > 0
        THEN [sha |-> sorted[1].commit.sha, author |-> sorted[1].commit.author,
              score |-> sorted[1].score, changed_files |-> sorted[1].commit.changed_files,
              tests_detected |-> FindMatchingTests(sorted[1].commit, test_names)]
        ELSE None

\* the `commit_scores` list of CommitAttributor.attribute before sorting
CommitScores(cs, stack_files, test_names, has_network_issues) ==
    [k \in 1..Len(cs) |->
        [commit |-> cs[k],
         score |-> ScoreCommit(cs[k], stack_files, test_names, has_network_issues)]]

(***************************************************************************)
(* The attributor as a state machine: one attribute(events, commits) call  *)
(* per behaviour, over every bounded event list and commit list.           *)
(***************************************************************************)
MaxCommits == 2

TextPyTrace == <<"F","i","l","e"," ","\"","s","r","c","/","p","a","y","m","e","n","t","/","c","h","a","r","g","e",".","p","y","\"",","," ","l","i","n","e"," ","1","0">>
TextTestFailed == <<"F","A","I","L","E","D"," ","t","e","s","t","_","a","_","t","e","s","t","_","b">>
TextJavaTrace == <<"C","a","u","s","e","d"," ","a","t"," ","r","u","n","(","p","a","y",".","C","h","a","r","g","e",")">>
TextSocket == <<"s","o","c","k","e","t"," ","c","l","o","s","e","d">>

AttrTexts == {TextPyTrace, TextTestFailed, TextJavaTrace, TextSocket}

Commit(sha, files) == [sha |-> sha, author |-> "dev", message |-> "change", changed_files |-> files]

CommitCharge == Commit("c-charge", << <<"s","r","c","/","p","a","y","m","e","n","t","/","c","h","a","r","g","e",".","p","y">> >>)
CommitMixed == Commit("c-mixed", << <<"a","_","b",".","p","y">>, <<"l","i","b","/","h","t","t","p","_","r","e","t","r","y",".","p","y">> >>)
CommitTests == Commit("c-tests", << <<"t","e","s","t","s","/","a","_","t","e","s","t","_","b",".","p","y">> >>)
CommitJava == Commit("c-java", << <<"s","r","c","\\","p","a","y","\\","C","h","a","r","g","e",".","j","a","v","a">>, <<"C","H","A","R","G","E",".","P","Y">> >>)
CommitDocs == Commit("c-docs", << <<"d","o","c","s","/","r","e","a","d","m","e",".","m","d">> >>)

Commits == {CommitCharge, CommitMixed, CommitTests, CommitJava, CommitDocs}

CommitLists == UNION {[1..m -> Commits] : m \in 0..MaxCommits}

InitAttr ==
    /\ events \in EventLists(AttrTexts, MaxEvents)
    /\ pc = "start"
    /\ commits \in CommitLists
    /\ evidence = None
    /\ commitScores = <<>>
    /\ attribution = None
    /\ RulesIdle
    /\ summary = None
    /\ MlIdle
    /\ RestIdle

\* CommitAttributor.attribute(events, commits); the two lists made from sets
\* come in any order
Attribute ==
    /\ pc = "start"
    /\ pc' = "attributed"
    /\ IF commits = <<>>
       THEN /\ attribution' = None
            /\ UNCHANGED <<evidence, commitScores>>
       ELSE \E stack_files \in Orders(ExtractStackTraceFiles(events)),
               test_names \in Orders(ExtractTestNames(events)) :
                LET has_network_issues == DetectNetworkIssues(events)
                    commit_scores ==
                        CommitScores(commits, stack_files, test_names, has_network_issues)
                IN  /\ evidence' = [stack_files |-> stack_files,
                                    test_names |-> test_names,
                                    has_network_issues |-> has_network_issues]
                    /\ commitScores' = commit_scores
                    /\ attribution' = SelectBest(commit_scores, test_names)
    /\ UNCHANGED <<restVars, events, commits, ruleVars, summary, mlVars>>

NextAttr == Attribute

SpecAttr == InitAttr /\ [][NextAttr]_vars

(***************************************************************************)
(* LogSummarizer: extraction.                                              *)
(***************************************************************************)
\* events[-300:]
WindowSize == 300
\* len(exceptions) >= 3, len(tests) >= 5
MaxExceptions == 3
MaxTests == 5
\* len(assertion) > 180, assertion[:177]
AssertionLimit == 180
AssertionKeep == 177
\* assertion[:100] in the digest; tests[:3] in the digest
DigestAssertionKeep == 100
DigestTests == 3

\* recent_events in summarize
RecentEvents(evs) ==
    IF Len(evs) > WindowSize THEN SubSeq(evs, Len(evs) - WindowSize + 1, Len(evs)) ELSE evs

\* exception_pattern, (\w*Exception|\w*Error)(?:\s|$|:) with re.IGNORECASE,
\* matches at i.  \w* is greedy and the terminator is not a word character, so
\* a match is a whole run of word characters that ends in Exception or Error
\* and is followed by white space, a colon or the end of the text.
ExceptionAt(text, i) ==
    /\ text[i] \in WordChars
    /\ LET e == SkipClass(text, i, WordChars)
           run == Lower(Slice(text, i, e))
       IN  /\ EndsWith(run, <<"e","x","c","e","p","t","i","o","n">>) \/ EndsWith(run, <<"e","r","r","o","r">>)
           /\ (e > Len(text) \/ text[e] \in Whitespace \cup {":"})

\* exception_pattern.findall(text[i:])
RECURSIVE FindAllExceptions(_, _)
FindAllExceptions(text, i) ==
    LET at == FirstOf({j \in i..Len(text) : ExceptionAt(text, j)})
    IN  IF at = 0 THEN <<>>
        ELSE LET e == SkipClass(text, at, WordChars)
             IN  <<Slice(text, at, e)>> \o FindAllExceptions(text, e + 1)

\* the loop `for match in matches: found.add(match); if len(found) >= cap: break`
RECURSIVE AddMatches(_, _, _)
AddMatches(found, matches, cap) ==
    IF matches = <<>> THEN found
    ELSE LET added == found \cup {Head(matches)}
         IN  IF Cardinality(added) >= cap THEN added
             ELSE AddMatches(added, Tail(matches), cap)

\* the event loop shared by _extract_exceptions and _extract_tests, over the
\* findall results of the events (<<>> for an event without text): the set
\* built when the loop ends or is left by `break`.  An event without a match
\* leaves the set as it is, so the loop goes from one event with a match to
\* the next.
RECURSIVE CollectCapped(_, _, _, _)
CollectCapped(matches, k, found, cap) ==
    LET at == FirstOf({j \in k..Len(matches) : matches[j] # <<>>})
    IN  IF at = 0 THEN found
        ELSE LET added == AddMatches(found, matches[at], cap)
             IN  IF Cardinality(added) >= cap THEN added
                 ELSE CollectCapped(matches, at + 1, added, cap)

\* [match.strip() for match in exception_pattern.findall(event.text)], per event
ExceptionMatches(evs) ==
    [j \in 1..Len(evs) |->
        IF evs[j].text = <<>> THEN <<>>
        ELSE [k \in 1..Len(FindAllExceptions(evs[j].text, 1)) |->
                 Strip(FindAllExceptions(evs[j].text, 1)[k])]]

\* test_pattern.findall(event.text), per event; test_pattern is compiled with
\* re.IGNORECASE
TestMatches(evs) ==
    [j \in 1..Len(evs) |->
        IF evs[j].text = <<>> THEN <<>>
        ELSE FindAllTestNames(evs[j].text, Lower(evs[j].text), 1)]

\* LogSummarizer._extract_exceptions: the set `exceptions`
ExtractExceptions(evs) == CollectCapped(ExceptionMatches(evs), 1, {}, MaxExceptions)

\* LogSummarizer._extract_tests: the set `tests`
ExtractTests(evs) == CollectCapped(TestMatches(evs), 1, {}, MaxTests)

\* index of the first match of assertion_pattern, (assert.*|AssertionError.*)
\* with re.IGNORECASE, 0 if none: both alternatives begin with `assert`
AssertionStart(text) ==
    LET hits == {i \in 1..Len(text) : StartsWithAt(Lower(text), i, <<"a","s","s","e","r","t">>)}
    IN  IF hits = {} THEN 0 ELSE CHOOSE i \in hits : \A j \in hits : i <= j

\* as TrimAssertion, but keeping 180 characters before the ellipsis
TrimAssertionKeepLimit(assertion) ==
    IF Len(assertion) > AssertionLimit
    THEN SubSeq(assertion, 1, AssertionLimit) \o <<".",".",".">>
    ELSE assertion

\* "Trim to 180 characters" in _extract_assertion
TrimAssertion(assertion) ==
    IF Len(assertion) > AssertionLimit
    THEN SubSeq(assertion, 1, AssertionKeep) \o <<".",".",".">>
    ELSE assertion

\* LogSummarizer._extract_assertion: the first event whose text matches
ExtractAssertion(evs) ==
    LET at == FirstOf({j \in 1..Len(evs) :
                          evs[j].text # <<>> /\ AssertionStart(evs[j].text) # 0})
    IN  IF at = 0 THEN None
        ELSE LET text == evs[at].text
             IN  Some(TrimAssertion(Strip(SubSeq(text, AssertionStart(text), Len(text)))))

\* sep.join(parts)
RECURSIVE Join(_, _)
Join(parts, sep) ==
    IF parts = <<>> THEN <<>>
    ELSE IF Len(parts) = 1 THEN parts[1]
    ELSE parts[1] \o sep \o Join(Tail(parts), sep)

\* LogSummarizer._generate_summary_text
GenerateSummaryText(exceptions, tests, assertion) ==
    LET exceptionPart ==
            IF exceptions = <<>> THEN <<>>
            ELSE IF Len(exceptions) = 1 THEN << <<"E","x","c","e","p","t","i","o","n",":"," ">> \o exceptions[1] >>
            ELSE << <<"E","x","c","e","p","t","i","o","n","s",":"," ">> \o Join(exceptions, <<","," ">>) >>
        testPart ==
            IF tests = <<>> THEN <<>>
            ELSE IF Len(tests) = 1 THEN << <<"T","e","s","t",":"," ">> \o tests[1] >>
            ELSE << <<"T","e","s","t","s",":"," ">> \o Join(SubSeq(tests, 1, IF Len(tests) < DigestTests
                                                        THEN Len(tests) ELSE DigestTests), <<","," ">>) >>
        assertionPart ==
            IF assertion = None THEN <<>>
            ELSE << <<"A","s","s","e","r","t","i","o","n",":"," ">> \o
                    (IF Len(assertion.some) > DigestAssertionKeep
                     THEN SubSeq(assertion.some, 1, DigestAssertionKeep) \o <<".",".",".">>
                     ELSE assertion.some) >>
        parts == exceptionPart \o testPart \o assertionPart
    IN  IF parts # <<>> THEN Join(parts, <<" ","|"," ">>)
        ELSE <<"N","o"," ","s","p","e","c","i","f","i","c"," ","f","a","i","l","u","r","e"," ","d","e","t","a","i","l","s"," ","e","x","t","r","a","c","t","e","d">>

\* LogSummarizer.summarize, given the order in which list(set) returned the
\* exceptions and the tests
Summarize(evs, exceptions, tests) ==
    LET assertion == ExtractAssertion(RecentEvents(evs))
    IN  [label |-> "PENDING", confidence |-> [num |-> 0, den |-> 1],
         exceptions |-> exceptions, tests |-> tests, assertion |-> assertion,
         summary |-> GenerateSummaryText(exceptions, tests, assertion)]

(***************************************************************************)
(* The summarizer as a state machine: one summarize(events) call per       *)
(* behaviour.  Besides the bounded event lists there is one log longer     *)
(* than the window, whose first event lies outside it.                     *)
(***************************************************************************)
TextValueError == <<"V","a","l","u","e","E","r","r","o","r",":"," ","b","a","d"," ","i","n","p","u","t">>
TextThreeErrors == <<"I","O","E","r","r","o","r",":"," ","x"," ","T","y","p","e","E","r","r","o","r",":"," ","y"," ","O","S","E","r","r","o","r">>
TextFourTests == <<"t","e","s","t","_","a"," ","t","e","s","t","_","b"," ","t","e","s","t","_","c"," ","t","e","s","t","_","d">>
TextMoreTests == <<"t","e","s","t","_","e"," ","T","E","S","T","_","F"," ","t","e","s","t","_","a"," ","t","e","s","t","_","g">>
TextShortAssert == <<" "," ","a","s","s","e","r","t"," ","x"," ","=","="," ","1">>
TextLongAssert == <<"A","s","s","e","r","t","i","o","n","E","r","r","o","r",":"," ">> \o [k \in 1..170 |-> "x"]
TextOk == <<"o","k">>

SumTexts == {TextValueError, TextThreeErrors, TextFourTests, TextMoreTests,
             TextShortAssert, TextLongAssert}

LongLog ==
    [k \in 1..(WindowSize + 1) |->
        Event(k - 1, IF k = 1 THEN TextValueError
                     ELSE IF k = 2 THEN TextThreeErrors ELSE TextOk)]

InitSum ==
    /\ events \in EventLists(SumTexts, MaxEvents) \cup {LongLog}
    /\ pc = "start"
    /\ summary = None
    /\ RulesIdle
    /\ AttrIdle
    /\ MlIdle
    /\ RestIdle

\* LogSummarizer.summarize(events); list(set) returns the members in any order
SummarizeCall ==
    /\ pc = "start"
    /\ pc' = "summarized"
    /\ \E exceptions \in Orders(ExtractExceptions(RecentEvents(events))),
          tests \in Orders(ExtractTests(RecentEvents(events))) :
            summary' = Summarize(events, exceptions, tests)
    /\ UNCHANGED <<restVars, events, ruleVars, attrVars, mlVars>>

NextSum == SummarizeCall

SpecSum == InitSum /\ [][NextSum]_vars

(***************************************************************************)
(* MLClassifier.  A vectorizer, label encoder or model is None or a record *)
(* saying whether it has been fitted and in which train call it was        *)
(* created; an encoder and a model also carry their classes.  What         *)
(* scikit-learn computes is not modelled: fitting fails where it raises    *)
(* (an empty vocabulary, a single class) and predict_proba returns any     *)
(* probability vector.                                                     *)
(***************************************************************************)
\* MLClassifier.is_available
IsAvailable(av, flag) == av /\ flag

\* MLClassifier.is_trained
IsTrained(st) == st.trained /\ st.model # None

\* MLClassifier.get_status
GetStatus(av, flag, st) ==
    IF ~av THEN "unavailable"
    ELSE IF ~flag THEN "deferred"
    ELSE IF ~st.trained THEN "available"
    ELSE "active"

\* the labels, in the order LabelEncoder sorts them
LabelOrder == <<"Build:Error", "Test:Failure">>

\* texts of training samples: one with a word the vectorizer keeps, one made
\* of English stop words only
TextTimeoutWord == <<"t","i","m","e","o","u","t">>
TextStopWords == <<"t","h","e"," ","a","n","d">>

\* whether TfidfVectorizer(stop_words='english').fit_transform finds a
\* vocabulary; it raises ValueError on an empty one
HasVocabulary(data) == \E k \in 1..Len(data) : data[k].text # TextStopWords

\* LabelEncoder.fit_transform: classes_, sorted and without duplicates
ClassesOf(data) == SelectSeq(LabelOrder, LAMBDA l : \E k \in 1..Len(data) : data[k].label = l)

\* self.vectorizer = TfidfVectorizer(...); self.label_encoder = LabelEncoder()
Replaced(st, gen) ==
    [st EXCEPT !.vectorizer = [fitted |-> FALSE, gen |-> gen],
               !.label_encoder = [fitted |-> FALSE, gen |-> gen, classes |-> <<>>]]

\* X = self.vectorizer.fit_transform(texts); y = self.label_encoder.fit_transform(labels)
Encoded(st, data, gen) ==
    [st EXCEPT !.vectorizer = [fitted |-> TRUE, gen |-> gen],
               !.label_encoder = [fitted |-> TRUE, gen |-> gen, classes |-> ClassesOf(data)]]

\* self.model = LogisticRegression(...)
Constructed(st, data, gen) ==
    [Encoded(st, data, gen) EXCEPT !.model = [fitted |-> FALSE, gen |-> gen, classes |-> <<>>]]

\* self.model.fit(X, y); self.trained = True
Fitted(st, data, gen) ==
    [Constructed(st, data, gen) EXCEPT !.model = [fitted |-> TRUE, gen |-> gen,
                                                  classes |-> ClassesOf(data)],
                                       !.trained = TRUE]

NotEnabled == "RuntimeError: ML dependencies not available or not enabled"
TooFewSamples == "ValueError: Need at least 2 training samples"
EmptyVocabulary == "ValueError: empty vocabulary"
UnexpectedKeyword == "TypeError: unexpected keyword argument 'multi_class'"
SingleClass == "ValueError: needs samples of at least 2 classes"

\* as Train, but the components are replaced before the sample count is checked
TrainReplaceFirst(av, flag, st, data, gen, accepted) ==
    IF ~IsAvailable(av, flag) THEN [state |-> st, outcome |-> NotEnabled]
    ELSE IF Len(data) < 2 THEN [state |-> Replaced(st, gen), outcome |-> TooFewSamples]
    ELSE IF ~HasVocabulary(data) THEN [state |-> Replaced(st, gen), outcome |-> EmptyVocabulary]
    ELSE IF ~accepted THEN [state |-> Encoded(st, data, gen), outcome |-> UnexpectedKeyword]
    ELSE IF Len(ClassesOf(data)) < 2
         THEN [state |-> Constructed(st, data, gen), outcome |-> SingleClass]
    ELSE [state |-> Fitted(st, data, gen), outcome |-> "ok"]

\* as Train, but self.trained = True comes before the model is fitted
TrainMarkEarly(av, flag, st, data, gen, accepted) ==
    IF ~IsAvailable(av, flag) THEN [state |-> st, outcome |-> NotEnabled]
    ELSE IF Len(data) < 2 THEN [state |-> st, outcome |-> TooFewSamples]
    ELSE IF ~HasVocabulary(data) THEN [state |-> Replaced(st, gen), outcome |-> EmptyVocabulary]
    ELSE IF ~accepted THEN [state |-> Encoded(st, data, gen), outcome |-> UnexpectedKeyword]
    ELSE IF Len(ClassesOf(data)) < 2
         THEN [state |-> [Constructed(st, data, gen) EXCEPT !.trained = TRUE],
               outcome |-> SingleClass]
    ELSE [state |-> Fitted(st, data, gen), outcome |-> "ok"]

\* MLClassifier.train: the classifier afterwards and how the call ended.  gen
\* numbers the call; accepted says whether the installed scikit-learn still
\* takes LogisticRegression's multi_class argument.
Train(av, flag, st, data, gen, accepted) ==
    IF ~IsAvailable(av, flag) THEN [state |-> st, outcome |-> NotEnabled]
    ELSE IF Len(data) < 2 THEN [state |-> st, outcome |-> TooFewSamples]
    ELSE IF ~HasVocabulary(data) THEN [state |-> Replaced(st, gen), outcome |-> EmptyVocabulary]
    ELSE IF ~accepted THEN [state |-> Encoded(st, data, gen), outcome |-> UnexpectedKeyword]
    ELSE IF Len(ClassesOf(data)) < 2
         THEN [state |-> Constructed(st, data, gen), outcome |-> SingleClass]
    ELSE [state |-> Fitted(st, data, gen), outcome |-> "ok"]

Sentinel(label) ==
    [label |-> label, confidence |-> [num |-> 0, den |-> 1],
     scores |-> <<[category |-> label, score |-> 0]>>]

\* whether the try block of classify raises: transform or predict_proba on a
\* component that is not fitted, predict_proba on features of another
\* vocabulary when their number differs (shapesDiffer), or inverse_transform
\* of a class index the encoder does not have
InferenceFails(st, probabilities, shapesDiffer) ==
    \/ st.vectorizer = None \/ ~st.vectorizer.fitted
    \/ ~st.model.fitted
    \/ st.vectorizer.gen # st.model.gen /\ shapesDiffer
    \/ st.label_encoder = None \/ ~st.label_encoder.fitted
    \/ Len(st.label_encoder.classes) < Len(probabilities)

\* the try block of classify when nothing raises; probabilities are in percent
Inference(st, probabilities) ==
    LET predicted_class_idx == ArgMaxFirst(probabilities)
    IN  [label |-> st.label_encoder.classes[predicted_class_idx],
         confidence |-> [num |-> probabilities[predicted_class_idx], den |-> 100],
         scores |-> [k \in 1..Len(probabilities) |->
                        [category |-> st.label_encoder.classes[k], score |-> probabilities[k]]]]

\* as MlClassify, but is_trained is consulted before is_available
MlClassifyTrainedFirst(av, flag, st, probabilities, shapesDiffer) ==
    IF ~IsTrained(st) THEN Sentinel("ML_UNTRAINED")
    ELSE IF ~IsAvailable(av, flag) THEN Sentinel("ML_UNAVAILABLE")
    ELSE IF InferenceFails(st, probabilities, shapesDiffer) THEN Sentinel("ML_ERROR")
    ELSE Inference(st, probabilities)

\* MLClassifier.classify
MlClassify(av, flag, st, probabilities, shapesDiffer) ==
    IF ~IsAvailable(av, flag) THEN Sentinel("ML_UNAVAILABLE")
    ELSE IF ~IsTrained(st) THEN Sentinel("ML_UNTRAINED")
    ELSE IF InferenceFails(st, probabilities, shapesDiffer) THEN Sentinel("ML_ERROR")
    ELSE Inference(st, probabilities)

(***************************************************************************)
(* The statistical classifier as a state machine: constructed on a host    *)
(* with or without the libraries, then trained, asked to classify and      *)
(* switched on and off through ENABLE_ML in any order.                     *)
(***************************************************************************)
MaxSamples == 2
MaxTrainCalls == 2

Samples == [text : {TextTimeoutWord, TextStopWords}, label : Range(LabelOrder)]

TrainingSets == UNION {[1..n -> Samples] : n \in 0..MaxSamples}

\* what predict_proba can return for two classes, in percent
ProbabilityVectors == {<<90, 10>>, <<50, 50>>, <<30, 70>>}

InitMl ==
    /\ available \in BOOLEAN
    /\ enableMl \in BOOLEAN
    /\ ml = Untrained
    /\ trainCalls = 0
    /\ trainInput = <<>>
    /\ trainOutcome = "none"
    /\ mlResult = None
    /\ pc = "constructed"
    /\ events = <<>>
    /\ RulesIdle
    /\ AttrIdle
    /\ summary = None
    /\ RestIdle

\* the environment sets or clears ENABLE_ML
SetEnableMl ==
    /\ enableMl' = ~enableMl
    /\ pc' = "flag"
    /\ UNCHANGED <<restVars, events, ruleVars, attrVars, summary,
                   available, ml, trainCalls, trainInput, trainOutcome, mlResult>>

\* MLClassifier.train(training_data)
TrainCall ==
    /\ trainCalls < MaxTrainCalls
    /\ \E data \in TrainingSets, accepted \in BOOLEAN :
          /\ trainInput' = data
          /\ ml' = Train(available, enableMl, ml, data, trainCalls + 1, accepted).state
          /\ trainOutcome' = Train(available, enableMl, ml, data, trainCalls + 1, accepted).outcome
    /\ trainCalls' = trainCalls + 1
    /\ pc' = "trained"
    /\ UNCHANGED <<restVars, events, ruleVars, attrVars, summary, available, enableMl, mlResult>>

\* MLClassifier.classify(text)
MlClassifyCall ==
    /\ \E probabilities \in ProbabilityVectors, shapesDiffer \in BOOLEAN :
          mlResult' = MlClassify(available, enableMl, ml, probabilities, shapesDiffer)
    /\ pc' = "ml_classified"
    /\ UNCHANGED <<restVars, events, ruleVars, attrVars, summary,
                   available, enableMl, ml, trainCalls, trainInput, trainOutcome>>

NextMl == SetEnableMl \/ TrainCall \/ MlClassifyCall

SpecMl == InitMl /\ [][NextMl]_vars

(***************************************************************************)
(* Properties of the rule classifier.                                      *)
(***************************************************************************)
Classified == pc = "classified"

AllScoresZero(result) == \A k \in 1..Len(result.scores) : result.scores[k].score = 0

ScoreOf(result, category) ==
    LET hits == {k \in 1..Len(result.scores) : result.scores[k].category = category}
    IN  IF hits = {} THEN 0 ELSE result.scores[CHOOSE k \in hits : TRUE].score

\* C1 (as stated): the confidence of every classify result is in [0,1], and it
\* is 0 if and only if the label is UNCLASSIFIED.
C1_ConfidenceZeroIffUnclassified ==
    Classified =>
        /\ ruleResult.confidence.den > 0
        /\ 0 <= ruleResult.confidence.num
        /\ ruleResult.confidence.num <= ruleResult.confidence.den
        /\ (ruleResult.confidence.num = 0) <=> (ruleResult.label = "UNCLASSIFIED")

\* C1 (amended): the confidence of every classify result is in [0,1]; it is 0
\* exactly when every category score is 0, and then the label is UNCLASSIFIED.
\* (A category named UNCLASSIFIED that wins is returned with confidence > 0.)
C1_ConfidenceZeroIffNoMatch ==
    Classified =>
        /\ ruleResult.confidence.den > 0
        /\ 0 <= ruleResult.confidence.num
        /\ ruleResult.confidence.num <= ruleResult.confidence.den
        /\ (ruleResult.confidence.num = 0) <=> AllScoresZero(ruleResult)
        /\ (ruleResult.confidence.num = 0) => (ruleResult.label = "UNCLASSIFIED")

\* a classify call in which nothing matched, and one in which the catch-all won
C1_Witness ==
    /\ Classified
    /\ events # <<>>
    /\ rules # DefaultTaxonomy
    /\ AllScoresZero(ruleResult)
    /\ ruleResult.label = "UNCLASSIFIED"

ScenarioA ==
    /\ Classified
    /\ rules = DefaultTaxonomy
    /\ events = <<Event(0, TextScenarioA)>>

\* C2 (as stated): Scenario A yields Test:Failure:Assertion with score 2 and
\* confidence 1.0, no other category scoring above zero.
C2_ScenarioAScore2 ==
    ScenarioA =>
        /\ ruleResult.label = "Test:Failure:Assertion"
        /\ ScoreOf(ruleResult, "Test:Failure:Assertion") = 2
        /\ ruleResult.confidence.num = ruleResult.confidence.den
        /\ \A k \in 1..Len(ruleResult.scores) :
              ruleResult.scores[k].category # "Test:Failure:Assertion"
                  => ruleResult.scores[k].score = 0

\* C2 (amended): Scenario A yields Test:Failure:Assertion with score 4 (the
\* patterns AssertionError and expected.*got both match), UNCLASSIFIED scores 1
\* (its pattern `error` matches inside AssertionError), every other category
\* scores 0, and the confidence is 4/5 = 0.8.
C2_ScenarioAScore4 ==
    ScenarioA =>
        /\ ruleResult.label = "Test:Failure:Assertion"
        /\ ScoreOf(ruleResult, "Test:Failure:Assertion") = 4
        /\ ScoreOf(ruleResult, "UNCLASSIFIED") = 1
        /\ \A k \in 1..Len(ruleResult.scores) :
              ruleResult.scores[k].category \notin {"Test:Failure:Assertion", "UNCLASSIFIED"}
                  => ruleResult.scores[k].score = 0
        /\ ruleResult.confidence.num * 5 = ruleResult.confidence.den * 4

C2_Witness == ScenarioA /\ ruleResult.label = "Test:Failure:Assertion"

\* C3: when some score is non-zero, the label is a category holding the maximum
\* score, no category earlier in the rule set's insertion order holds that
\* score too, and the confidence is that score divided by the sum of all scores.
C3_MaxFirstAndRatio ==
    (Classified /\ ~AllScoresZero(ruleResult)) =>
        \E k \in 1..Len(ruleResult.scores) :
            /\ ruleResult.scores[k].category = ruleResult.label
            /\ Keys(rules)[k] = ruleResult.label
            /\ \A j \in 1..Len(ruleResult.scores) :
                  ruleResult.scores[j].score <= ruleResult.scores[k].score
            /\ \A j \in 1..(k - 1) :
                  ruleResult.scores[j].score < ruleResult.scores[k].score
            /\ ruleResult.confidence.num * SumSeq([j \in 1..Len(ruleResult.scores) |->
                                                      ruleResult.scores[j].score])
                  = ruleResult.scores[k].score * ruleResult.confidence.den

\* a classify call whose two best categories tie and which is not the only scorer
C3_Witness ==
    /\ Classified
    /\ \E j, k \in 1..Len(ruleResult.scores) :
          /\ j < k
          /\ ruleResult.scores[j].score = ruleResult.scores[k].score
          /\ ruleResult.scores[j].score > 0
          /\ ruleResult.label = ruleResult.scores[j].category
          /\ \A i \in 1..Len(ruleResult.scores) :
                ruleResult.scores[i].score <= ruleResult.scores[j].score
          /\ ruleResult.confidence.num < ruleResult.confidence.den

(***************************************************************************)
(* Properties of the attributor.                                           *)
(***************************************************************************)
Attributed == pc = "attributed"

\* C4: attribute returns None exactly when the commit list is empty or every
\* commit scores 0; otherwise the result names a commit holding the maximum
\* score, carries that score, which is > 0, and that commit's changed_files.
C4_NoneIffNoPositiveScore ==
    Attributed =>
        /\ (attribution = None) <=>
              (commits = <<>> \/ \A k \in 1..Len(commitScores) : commitScores[k].score = 0)
        /\ attribution # None =>
              /\ attribution.score > 0
              /\ \E k \in 1..Len(commits) :
                    /\ commits[k].sha = attribution.sha
                    /\ commitScores[k].score = attribution.score
                    /\ commits[k].changed_files = attribution.changed_files
              /\ \A j \in 1..Len(commitScores) : commitScores[j].score <= attribution.score

\* a call over two commits with different positive scores, the better one second
C4_Witness ==
    /\ Attributed
    /\ Len(commits) = 2
    /\ commitScores[1].score > 0
    /\ commitScores[1].score < commitScores[2].score
    /\ attribution # None
    /\ attribution.sha = commits[2].sha

\* a call in which every commit of a non-empty list scores 0
C4_WitnessZero ==
    /\ Attributed
    /\ commits # <<>>
    /\ events # <<>>
    /\ attribution = None

\* the stem of the glossary: the identifier with its fixed prefix test_ removed
PrefixStem(test_name) == SubSeq(test_name, 6, Len(test_name))

\* stem.lower() in changed_file.lower(), for that stem
PrefixStemInFile(test_name, changed_file) ==
    Contains(Lower(changed_file), Lower(PrefixStem(test_name)))

\* the (member, position in changed_files) pairs of a set of such pairs that match
Pairs(left, changed_files) == left \X (1..Len(changed_files))

KeywordFileCount(changed_files) ==
    Cardinality({k \in 1..Len(changed_files) :
                    \E term \in NetworkRelatedFiles : Contains(Lower(changed_files[k]), term)})

\* C5: a commit's score is 3 x the matching (stack-file, changed-file) pairs
\* + 2 x the (test-identifier, changed-file) pairs whose stem (the identifier
\* without its test_ prefix) is a case-insensitive substring of the path
\* + with the network flag set, the number of changed files whose path holds
\* a network keyword.
C5_ScoreFormula ==
    (Attributed /\ commits # <<>>) =>
        \A k \in 1..Len(commits) :
            LET files == commits[k].changed_files
            IN  commitScores[k].score =
                    3 * Cardinality({p \in Pairs(Range(evidence.stack_files), files) :
                                        FilesMatch(p[1], files[p[2]])})
                    + 2 * Cardinality({p \in Pairs(Range(evidence.test_names), files) :
                                          PrefixStemInFile(p[1], files[p[2]])})
                    + (IF evidence.has_network_issues THEN KeywordFileCount(files) ELSE 0)

\* C5 with the stem the code computes, test_name.replace('test_', ''): every
\* occurrence of test_ removed, not only the prefix.
C5_ScoreFormulaReplaceStem ==
    (Attributed /\ commits # <<>>) =>
        \A k \in 1..Len(commits) :
            LET files == commits[k].changed_files
            IN  commitScores[k].score =
                    3 * Cardinality({p \in Pairs(Range(evidence.stack_files), files) :
                                        FilesMatch(p[1], files[p[2]])})
                    + 2 * Cardinality({p \in Pairs(Range(evidence.test_names), files) :
                                          StemInFile(p[1], files[p[2]])})
                    + (IF evidence.has_network_issues THEN KeywordFileCount(files) ELSE 0)

(***************************************************************************)
(* Properties of the summarizer.                                           *)
(***************************************************************************)
Summarized == pc = "summarized"

NoDuplicates(seq) == \A a, b \in 1..Len(seq) : seq[a] = seq[b] => a = b

\* C6: summarize returns at most 3 exceptions and at most 5 tests, each list
\* without duplicates, and an assertion that is absent or at most 180
\* characters long, ending in the 3-character ellipsis when it was truncated.
C6_SummaryBounds ==
    Summarized =>
        /\ Len(summary.exceptions) <= 3
        /\ Len(summary.tests) <= 5
        /\ NoDuplicates(summary.exceptions)
        /\ NoDuplicates(summary.tests)
        /\ \/ summary.assertion = None
           \/ Len(summary.assertion.some) <= 180

\* a call in which the exception cap cuts a match off and the assertion is
\* truncated to 177 characters plus the ellipsis
C6_Witness ==
    /\ Summarized
    /\ events = <<Event(0, TextThreeErrors), Event(1, TextLongAssert)>>
    /\ Len(summary.exceptions) = 3
    /\ summary.assertion # None
    /\ Len(summary.assertion.some) = 180
    /\ SubSeq(summary.assertion.some, 178, 180) = <<".",".",".">>

\* a call in which the test cap cuts matches off
C6_WitnessTests ==
    /\ Summarized
    /\ events = <<Event(0, TextFourTests), Event(1, TextMoreTests)>>
    /\ Len(summary.tests) = 5

\* the concatenation of a sequence of sequences
RECURSIVE Flatten(_, _)
Flatten(seqs, k) ==
    LET at == FirstOf({j \in k..Len(seqs) : seqs[j] # <<>>})
    IN  IF at = 0 THEN <<>> ELSE seqs[at] \o Flatten(seqs, at + 1)

\* the first n distinct values of a sequence, in first-seen order
RECURSIVE FirstDistinct(_, _, _)
FirstDistinct(seq, seen, n) ==
    IF seq = <<>> \/ Len(seen) >= n THEN seen
    ELSE FirstDistinct(Tail(seq),
                       IF Head(seq) \in Range(seen) THEN seen ELSE Append(seen, Head(seq)), n)

FirstSeenExceptions(evs) ==
    FirstDistinct(Flatten(ExceptionMatches(RecentEvents(evs)), 1), <<>>, 3)

FirstSeenTests(evs) ==
    FirstDistinct(Flatten(TestMatches(RecentEvents(evs)), 1), <<>>, 5)

\* C7: the exceptions (tests) returned are the first 3 (5) distinct matching
\* values of the trailing window in first-seen order.
C7_FirstSeenOrder ==
    Summarized =>
        /\ summary.exceptions = FirstSeenExceptions(events)
        /\ summary.tests = FirstSeenTests(events)

\* what the code does guarantee of C7: the values returned are those first 3
\* (5) distinct values, in some order
C7_FirstSeenMembers ==
    Summarized =>
        /\ Range(summary.exceptions) = Range(FirstSeenExceptions(events))
        /\ Range(summary.tests) = Range(FirstSeenTests(events))

(***************************************************************************)
(* Properties of the statistical classifier.                               *)
(***************************************************************************)
Status == GetStatus(available, enableMl, ml)

FlagChanged == enableMl' # enableMl

TrainReturned == trainCalls' = trainCalls + 1

TrainSucceeded == TrainReturned /\ trainOutcome' = "ok"

\* the transitions the state machine of the specification draws
DrawnTransition(from, to) ==
    \/ from = "deferred" /\ to = "available" /\ FlagChanged
    \/ from = "available" /\ to = "deferred" /\ FlagChanged
    \/ from = "available" /\ to = "active" /\ TrainSucceeded

\* what a flag change does to a classifier that has been trained
TrainedTransition(from, to) ==
    \/ from = "active" /\ to = "deferred" /\ FlagChanged /\ ml.trained
    \/ from = "deferred" /\ to = "active" /\ FlagChanged /\ ml.trained

\* C8 as stated: over train calls and flag changes the status changes only
\* along deferred <-> available and, when a train call succeeds, from
\* available to active; it never leaves unavailable, never leaves active and
\* never goes from deferred directly to active.
C8_OnlyDrawnTransitions ==
    [][Status' # Status => DrawnTransition(Status, Status')]_vars

\* C8, amended: the status never leaves unavailable; it is deferred whenever
\* the libraries are present and the flag is off, so a flag change moves an
\* untrained classifier along deferred <-> available and a trained one along
\* deferred <-> active; available becomes active only when a train call
\* succeeds, and active never goes back to available.
C8_StatusTransitions ==
    [][/\ Status' # Status =>
            DrawnTransition(Status, Status') \/ TrainedTransition(Status, Status')
       /\ Status = "deferred" /\ Status' = "available" => ~ml.trained
       /\ available' /\ ~enableMl' => Status' = "deferred"]_vars

\* a trained classifier whose flag has been switched off: active became deferred
C8_Witness ==
    /\ pc = "flag"
    /\ trainOutcome = "ok"
    /\ ml.trained
    /\ Status = "deferred"

Sentinels == {"ML_UNAVAILABLE", "ML_UNTRAINED", "ML_ERROR"}

MlClassified == pc = "ml_classified"

\* what C9 says of the result of classify; classify leaves the classifier as
\* it is, so the state after the call is the state it ran in
SentinelContract ==
    /\ mlResult # None
    /\ ~available \/ ~enableMl => mlResult = Sentinel("ML_UNAVAILABLE")
    /\ available /\ enableMl /\ ~ml.trained => mlResult = Sentinel("ML_UNTRAINED")
    /\ available /\ enableMl /\ ml.trained /\ (~ml.vectorizer.fitted \/ ~ml.model.fitted)
          => mlResult = Sentinel("ML_ERROR")
    /\ mlResult.label \in Sentinels => mlResult.confidence.num = 0
    /\ mlResult.label \notin Sentinels =>
          /\ available /\ enableMl /\ ml.trained
          /\ mlResult.label \in Range(LabelOrder)

\* C9 as stated: classify always returns a result: ML_UNAVAILABLE while the
\* libraries are absent or the flag is off, trained or not; ML_UNTRAINED while
\* enabled and untrained; ML_ERROR when inference fails; every sentinel has
\* confidence 0; and with the flag off the status is deferred.
C9_SentinelsAndDeferred ==
    MlClassified => SentinelContract /\ (~enableMl => Status = "deferred")

\* C9, amended: as stated, except that with the flag off the status is
\* deferred only where the libraries are present; where they are absent it
\* is unavailable.
C9_SentinelsAndStatus ==
    MlClassified =>
        /\ SentinelContract
        /\ ~enableMl => Status = (IF available THEN "deferred" ELSE "unavailable")

\* classify has answered on a host without the libraries, flag off
C9_Witness ==
    /\ MlClassified
    /\ ~available
    /\ ~enableMl
    /\ mlResult = Sentinel("ML_UNAVAILABLE")

\* classify has answered ML_UNAVAILABLE for a trained classifier switched off
C9_WitnessTrainedFlagOff ==
    /\ MlClassified
    /\ ml.trained
    /\ ~enableMl
    /\ mlResult = Sentinel("ML_UNAVAILABLE")

\* classify has answered ML_ERROR: a retraining failed and left the model unfitted
C9_WitnessError ==
    /\ MlClassified
    /\ ml.trained
    /\ ~ml.model.fitted
    /\ mlResult = Sentinel("ML_ERROR")

\* classify has answered with a real label
C9_WitnessActive ==
    /\ MlClassified
    /\ mlResult.label \in Range(LabelOrder)

ShortTrain == TrainReturned /\ Len(trainInput') < 2

\* C10 as stated: train with fewer than 2 samples signals the invalid-input
\* error and leaves model, vectorizer, label encoder, trained flag and status
\* as they were, trained earlier or not.
C10_ShortTrainInvalidInput ==
    [][ShortTrain => /\ trainOutcome' = TooFewSamples
                     /\ ml' = ml
                     /\ Status' = Status]_vars

\* C10, amended: train with fewer than 2 samples leaves the classifier and
\* its status as they were, trained earlier or not; it signals the
\* invalid-input error where the libraries are present and the flag is on,
\* and the not-enabled error otherwise.
C10_ShortTrainRejected ==
    [][ShortTrain => /\ trainOutcome' = (IF available /\ enableMl THEN TooFewSamples
                                          ELSE NotEnabled)
                     /\ ml' = ml
                     /\ Status' = Status]_vars

\* a trained classifier has rejected a train call with fewer than 2 samples
C10_Witness ==
    /\ pc = "trained"
    /\ Len(trainInput) < 2
    /\ trainOutcome = TooFewSamples
    /\ ml.trained
    /\ ml.model.fitted

\* a classifier that is not enabled has rejected a train call with fewer
\* than 2 samples
C10_WitnessNotEnabled ==
    /\ pc = "trained"
    /\ Len(trainInput) < 2
    /\ trainOutcome = NotEnabled

(***************************************************************************)
(* Properties of taxonomy loading.                                         *)
(***************************************************************************)
Categories(d) == Range(Keys(d))

Loaded == pc = "reloaded"

\* C12: loading the taxonomy never propagates an error; whenever the file is
\* unreadable (missing, permission denied) or malformed (invalid syntax,
\* empty, not a nested mapping) the rule set becomes the built-in default.
C12_UnusableSourceGivesDefault ==
    Loaded /\ taxonomyFile.kind # "yaml" =>
        /\ loadOutcome = "ok"
        /\ rules = DefaultTaxonomy

\* what does hold: a missing file gives the built-in default and no error
C12_MissingFileGivesDefault ==
    Loaded /\ taxonomyFile = FileMissing =>
        /\ loadOutcome = "ok"
        /\ rules = DefaultTaxonomy

\* a reload has found the file missing
C12_WitnessMissing == Loaded /\ taxonomyFile = FileMissing /\ rules = DefaultTaxonomy

\* C17: after any sequence of reloads the categories of the rule set are
\* exactly those compiled from the file as it was at the most recent load;
\* none from an earlier file version or from the built-in default remains.
C17_OnlyLatestCategories ==
    loadOutcome = "ok" =>
        Categories(rules) = Categories(LoadTaxonomy(<<>>, taxonomyFile).rules)

\* what does hold: the categories of the most recent load are all there, with
\* the rules compiled from it
C17_LatestCategoriesPresent ==
    loadOutcome = "ok" =>
        \A k \in 1..Len(LoadTaxonomy(<<>>, taxonomyFile).rules) :
            \E j \in 1..Len(rules) : rules[j] = LoadTaxonomy(<<>>, taxonomyFile).rules[k]

\* a reload of another file version has kept the categories of the earlier one
C17_WitnessStale ==
    /\ Loaded
    /\ taxonomyFile = TaxonomyB
    /\ HasKey(rules, "Infra:Network")

(***************************************************************************)
(* Properties of a train call that fails.                                  *)
(***************************************************************************)
\* vectorizer, label encoder and model fitted by one and the same train call
FullyFitted(st) ==
    /\ st.vectorizer # None /\ st.label_encoder # None /\ st.model # None
    /\ st.vectorizer.fitted /\ st.label_encoder.fitted /\ st.model.fitted
    /\ st.vectorizer.gen = st.model.gen
    /\ st.label_encoder.gen = st.model.gen

TrainFailed == TrainReturned /\ trainOutcome' # "ok"

\* C18: a train call that fails at any step leaves the classifier as it was
\* before the call; status active always means a vectorizer, label encoder
\* and model fitted by one and the same successful train call, and classify
\* in status active does not answer ML_ERROR because a retraining failed.
C18_FailedTrainLeavesState ==
    [][/\ TrainFailed => ml' = ml
       /\ Status' = "active" => FullyFitted(ml')
       /\ pc' = "ml_classified" /\ Status' = "active" => mlResult'.label # "ML_ERROR"]_vars

\* what does hold: a failed train call never changes the trained flag, and so
\* never the status
C18_FailedTrainKeepsStatus ==
    [][TrainFailed => ml'.trained = ml.trained /\ Status' = Status]_vars

\* status active over a model that a failed retraining left unfitted, and
\* classify has answered ML_ERROR
C18_WitnessBrokenActive ==
    /\ MlClassified
    /\ Status = "active"
    /\ ~FullyFitted(ml)
    /\ mlResult = Sentinel("ML_ERROR")

(***************************************************************************)
(* LogNormalizer.  The escape character is the one-character string Esc.   *)
(***************************************************************************)
Esc == "ESC"

\* [@-Z\\-_]
AnsiSingle == {"@"} \cup UpperLetters \cup {"\\", "]", "^", "_"}
\* [0-?]
CsiParameters == Digits \cup {":", ";", "<", "=", ">", "?"}
\* [ -/]
CsiIntermediates == {" ", "!", "\"", "#", "$", "%", "&", "'", "(", ")", "*", "+", ",", "-", ".", "/"}
\* [@-~], but for the backquote, which a TLA+ string cannot hold
CsiFinal == {"@", "[", "\\", "]", "^", "_", "{", "|", "}", "~"} \cup Letters

\* ansi_escape matched at i: the index after the match, 0 if there is none.
\* The three classes after \[ are disjoint, so the greedy match is the only one.
AnsiEscapeAt(s, i) ==
    IF i + 1 > Len(s) \/ s[i] # Esc THEN 0
    ELSE IF s[i + 1] \in AnsiSingle THEN i + 2
    ELSE IF s[i + 1] = "["
         THEN LET final == SkipClass(s, SkipClass(s, i + 2, CsiParameters), CsiIntermediates)
              IN  IF final <= Len(s) /\ s[final] \in CsiFinal THEN final + 1 ELSE 0
    ELSE 0

\* self.ansi_escape.sub('', s[i:])
RECURSIVE AnsiSub(_, _)
AnsiSub(s, i) ==
    LET at == FirstOf({j \in i..Len(s) : AnsiEscapeAt(s, j) # 0})
    IN  IF at = 0 THEN SubSeq(s, i, Len(s))
        ELSE SubSeq(s, i, at - 1) \o AnsiSub(s, AnsiEscapeAt(s, at))

\* LogNormalizer._is_noise: one of noise_patterns matches line.strip() at its start
IsNoise(line) ==
    LET s == Strip(line)
    IN  \/ StartsWithAt(s, 1, <<"[","P","i","p","e","l","i","n","e","]">>)
        \/ /\ StartsWithAt(s, 1, <<"[">>)
           /\ SkipClass(s, 2, Digits) > 2
           /\ StartsWithAt(s, SkipClass(s, 2, Digits), <<"m">>)
        \/ /\ StartsWithAt(s, 1, <<"D","o","w","n","l","o","a","d">>)
           /\ Len(s) >= 11
           /\ EndsWith(s, <<".",".",".">>)
        \/ s = <<>>
        \/ Len(s) >= 5 /\ \A j \in 1..Len(s) : s[j] = "-"

\* timestamp_pattern, \d{4}-\d{2}-\d{2} \d{2}:\d{2}:\d{2}, matched at i
TimestampShape == <<"d","d","d","d","-","d","d","-","d","d"," ","d","d",":","d","d",":","d","d">>

TimestampAt(s, i) ==
    /\ i + Len(TimestampShape) - 1 <= Len(s)
    /\ \A k \in 1..Len(TimestampShape) :
          IF TimestampShape[k] = "d" THEN s[i + k - 1] \in Digits
          ELSE s[i + k - 1] = TimestampShape[k]

\* LogNormalizer._extract_timestamp
ExtractTimestamp(line) ==
    LET at == FirstOf({j \in 1..Len(line) : TimestampAt(line, j)})
    IN  IF at = 0 THEN None ELSE Some(SubSeq(line, at, at + Len(TimestampShape) - 1))

\* the alternatives of level_pattern, in the order the pattern tries them
Levels == <<<<"I","N","F","O">>, <<"W","A","R","N">>, <<"W","A","R","N","I","N","G">>, <<"E","R","R","O","R">>, <<"D","E","B","U","G">>, <<"T","R","A","C","E">>, <<"F","A","T","A","L">>>>

\* level_pattern, \[?(INFO|...)\]? with re.IGNORECASE, matched at i: the number
\* of the first alternative that matches there, 0 if none does
LevelAt(s, i) ==
    LET start == IF s[i] = "[" THEN i + 1 ELSE i
    IN  FirstOf({k \in 1..Len(Levels) : StartsWithAt(Lower(s), start, Lower(Levels[k]))})

\* LogNormalizer._extract_level: group(1).upper() of the leftmost match
ExtractLevel(line) ==
    LET at == FirstOf({j \in 1..Len(line) : LevelAt(line, j) # 0})
    IN  IF at = 0 THEN None ELSE Some(Levels[LevelAt(line, at)])

\* re.sub(pattern, '', text, count=1).strip() for a pattern that is a literal
SubOnce(text, lit) ==
    LET at == FirstOf({j \in 1..Len(text) : StartsWithAt(text, j, lit)})
    IN  IF at = 0 THEN Strip(text)
        ELSE Strip(SubSeq(text, 1, at - 1) \o SubSeq(text, at + Len(lit), Len(text)))

\* [\s\[\]:-]
Clutter == Whitespace \cup {"[", "]", ":", "-"}

\* LogNormalizer._clean_text
CleanText(line, timestamp, level) ==
    LET stamped == IF timestamp # None THEN Strip(Replace(line, timestamp.some, <<>>)) ELSE line
        levelled == IF level # None
                    THEN SubOnce(SubOnce(SubOnce(SubOnce(stamped,
                             <<"[">> \o level.some \o <<"]">>),
                             level.some),
                             <<"[">> \o Lower(level.some) \o <<"]">>),
                             Lower(level.some))
                    ELSE stamped
    IN  Strip(SubSeq(levelled, SkipClass(levelled, 1, Clutter), Len(levelled)))

\* raw_log.split('\n'), from index i on
RECURSIVE SplitLines(_, _)
SplitLines(s, i) ==
    LET at == IndexOfChar(s, i, "\n")
    IN  IF at = 0 THEN <<SubSeq(s, i, Len(s))>>
        ELSE <<SubSeq(s, i, at - 1)>> \o SplitLines(s, at + 1)

\* whether normalize skips the line
Skipped(line) == Strip(line) = <<>> \/ IsNoise(line) \/ Strip(AnsiSub(line, 1)) = <<>>

\* the event normalize makes of a line it does not skip
NormalizedEvent(index, line) ==
    LET clean_line == Strip(AnsiSub(line, 1))
    IN  [index |-> index,
         timestamp |-> ExtractTimestamp(clean_line),
         level |-> ExtractLevel(clean_line),
         text |-> CleanText(clean_line, ExtractTimestamp(clean_line), ExtractLevel(clean_line))]

\* LogNormalizer.normalize
Normalize(raw_log) ==
    LET lines == SplitLines(raw_log, 1)
        kept == SelectSeq([k \in 1..Len(lines) |-> k], LAMBDA k : ~Skipped(lines[k]))
    IN  [j \in 1..Len(kept) |-> NormalizedEvent(kept[j] - 1, lines[kept[j]])]

(***************************************************************************)
(* The normalizer as a state machine: normalize is called on a raw log of  *)
(* a few lines, then again on the text of any of the events it returned.   *)
(***************************************************************************)
MaxLines == 2

LineLevelOnly == <<"[","I","N","F","O","]">>
LineTimestampOnly == <<"2","0","2","4","-","0","1","-","0","1"," ","1","0",":","0","0",":","0","0">>
LineFull == <<"2","0","2","4","-","0","1","-","0","1"," ","1","0",":","0","0",":","0","0"," ","[","E","R","R","O","R","]"," ","b","u","i","l","d"," ","f","a","i","l","e","d">>
LineLevelTwice == <<"I","N","F","O"," ","I","N","F","O"," ","h","e","l","l","o">>
LinePipeline == <<"[","P","i","p","e","l","i","n","e","]"," ","s","h">>
LineSeparator == <<"-","-","-","-","-">>
LineColoured == <<Esc>> \o <<"[","3","1","m","E","R","R","O","R",":"," ","x">> \o <<Esc>> \o <<"[","0","m">>
LineEscapeOnly == <<Esc>> \o <<"[","0","m">>
LineDownload == <<"D","o","w","n","l","o","a","d"," ","a",".",".",".">>
LineLevelDownload == <<"I","N","F","O"," ","D","o","w","n","l","o","a","d"," ","a",".",".",".">>
LineWarning == <<"W","A","R","N","I","N","G",":"," ","d","i","s","k">>
LineBrackets == <<"[","]">>
LinePlain == <<"a","l","l"," ","t","e","s","t","s"," ","p","a","s","s","e","d">>

NormLines ==
    {LineLevelOnly, LineTimestampOnly, LineFull, LineLevelTwice, LinePipeline, LineSeparator,
     LineColoured, LineEscapeOnly, LineDownload, LineLevelDownload, LineWarning, LineBrackets,
     LinePlain, <<>>}

\* '\n'.join(lines)
RECURSIVE JoinLines(_)
JoinLines(lines) ==
    IF Len(lines) = 0 THEN <<>>
    ELSE IF Len(lines) = 1 THEN lines[1]
    ELSE lines[1] \o <<"\n">> \o JoinLines(Tail(lines))

RawLogs == {JoinLines(lines) : lines \in UNION {[1..n -> NormLines] : n \in 0..MaxLines}}

InitNorm ==
    /\ rawLog \in RawLogs
    /\ events = <<>>
    /\ again = None
    /\ pc = "start"
    /\ RulesIdle
    /\ AttrIdle
    /\ summary = None
    /\ MlIdle
    /\ IngestIdle
    /\ ConcIdle

\* LogNormalizer.normalize(raw_log)
NormalizeCall ==
    /\ pc = "start"
    /\ events' = Normalize(rawLog)
    /\ pc' = "normalized"
    /\ UNCHANGED <<rawLog, again, ruleVars, attrVars, summary, mlVars, ingestVars, concVars>>

\* LogNormalizer.normalize(event.text) for one of the events returned
NormalizeAgain ==
    /\ pc \in {"normalized", "renormalized"}
    /\ \E k \in 1..Len(events) :
          again' = [of |-> k, events |-> Normalize(events[k].text)]
    /\ pc' = "renormalized"
    /\ UNCHANGED <<rawLog, events, ruleVars, attrVars, summary, mlVars, ingestVars, concVars>>

NextNorm == NormalizeCall \/ NormalizeAgain

SpecNorm == InitNorm /\ [][NextNorm]_vars

(***************************************************************************)
(* Properties of the normalizer.                                           *)
(***************************************************************************)
Normalized == pc \in {"normalized", "renormalized"}

\* C14: every event normalize returns has non-empty text; a line of which
\* nothing remains after removal of escapes, timestamp, level token and
\* leading clutter produces no event.
C14_EventTextNonEmpty ==
    Normalized => \A k \in 1..Len(events) : events[k].text # <<>>

\* what does hold: no event comes from a line that is empty once its escape
\* sequences and surrounding whitespace are removed
C14_CleanLineNonEmpty ==
    Normalized =>
        \A k \in 1..Len(events) :
            Strip(AnsiSub(SplitLines(rawLog, 1)[events[k].index + 1], 1)) # <<>>

\* normalize has returned an event for the line [INFO], its text empty
C14_WitnessEmptyText ==
    /\ Normalized
    /\ rawLog = LineLevelOnly
    /\ Len(events) = 1
    /\ events[1].text = <<>>

\* C15: normalizing the text of an event normalize returned gives one event
\* with that same text; the second pass removes nothing more.
C15_Idempotent ==
    pc = "renormalized" =>
        /\ Len(again.events) = 1
        /\ again.events[1].text = events[again.of].text

\* the second pass has removed a level token the first pass left in the text
C15_WitnessLevelTwice ==
    /\ pc = "renormalized"
    /\ events[again.of].text = <<"I","N","F","O"," ","h","e","l","l","o">>
    /\ Len(again.events) = 1
    /\ again.events[1].text = <<"h","e","l","l","o">>

\* the second pass has dropped as noise a text the first pass returned
C15_WitnessDropped ==
    /\ pc = "renormalized"
    /\ events[again.of].text = LineDownload
    /\ again.events = <<>>

(***************************************************************************)
(* main.py: the orchestrator.  The components are constructed and          *)
(* ML_ENABLED is read when the module is imported; afterwards builds are   *)
(* ingested, the model is trained through the /train endpoint and the      *)
(* environment may change ENABLE_ML, in any order.                         *)
(***************************************************************************)
\* a < b and a > b for confidences, which are fractions
Less(a, b) == a.num * b.den < b.num * a.den

Greater(a, b) == Less(b, a)

\* the 0.55 below which the statistical classifier is consulted
LowConfidence == [num |-> 55, den |-> 100]

\* as Merge, but a statistical result of equal confidence also wins
MergeNotLess(rule_result, ml_result) ==
    IF ~Less(ml_result.confidence, rule_result.confidence) THEN ml_result ELSE rule_result

\* final_classification, once the statistical classifier has been consulted
Merge(rule_result, ml_result) ==
    IF Greater(ml_result.confidence, rule_result.confidence) THEN ml_result ELSE rule_result

\* whether ingest_build consults the statistical classifier
Consulted(rule_result, st) ==
    mlEnabled /\ Less(rule_result.confidence, LowConfidence) /\ IsTrained(st)

DigitChars == <<"0", "1", "2", "3", "4", "5", "6", "7", "8", "9">>

\* f"{confidence:.2f}" for a confidence between 0 and 1: hundredths rounded to
\* nearest.  A tie is rounded to even, as Python does for the eighths, the
\* only ties a fraction with a denominator below 40 can give.
Format2(confidence) ==
    LET q == (confidence.num * 100) \div confidence.den
        r == (confidence.num * 100) % confidence.den
        h == IF 2 * r < confidence.den THEN q
             ELSE IF 2 * r > confidence.den THEN q + 1
             ELSE IF q % 2 = 0 THEN q ELSE q + 1
    IN  <<DigitChars[(h \div 100) + 1], ".", DigitChars[((h \div 10) % 10) + 1],
          DigitChars[(h % 10) + 1]>>

\* LogSummarizer.update_summary_with_classification; the label, which the
\* model keeps as one string, is one element of the text
UpdateSummaryWithClassification(s, label, confidence) ==
    [s EXCEPT !.label = label,
              !.confidence = confidence,
              !.summary = <<"L","a","b","e","l",":"," ">> \o <<label>> \o <<" ","(">> \o Format2(confidence)
                          \o <<")"," ","|"," ">> \o s.summary]

LogPassed == <<"a","l","l"," ","t","e","s","t","s"," ","p","a","s","s","e","d">>
LogAssertion == <<"2","0","2","4","-","0","1","-","0","1"," ","1","0",":","0","0",":","0","0"," ","[","E","R","R","O","R","]"," ","A","s","s","e","r","t","i","o","n","E","r","r","o","r",":"," ","e","x","p","e","c","t","e","d"," ","5"," ","g","o","t"," ","3">>
LogConnTimeout == <<"c","o","n","n","e","c","t","i","o","n"," ","t","i","m","e","o","u","t">>
LogMixed == <<"[","I","N","F","O","]">> \o <<"\n">> \o <<"V","a","l","u","e","E","r","r","o","r",":"," ","b","a","d"," ","i","n","p","u","t">> \o <<"\n">> \o <<"F","A","I","L","E","D"," ","t","e","s","t","_","a">>
LogTrace == <<"F","i","l","e"," ","\"","s","r","c","/","p","a","y","m","e","n","t","/","c","h","a","r","g","e",".","p","y","\"",","," ","l","i","n","e"," ","1","0">>

IngestLogs == {LogPassed, LogAssertion, LogConnTimeout, LogMixed, LogTrace, <<>>}

IngestCommits == {<<>>, <<CommitCharge>>}

TwoClasses ==
    <<[text |-> TextTimeoutWord, label |-> LabelOrder[1]],
      [text |-> TextTimeoutWord, label |-> LabelOrder[2]]>>
OneClass ==
    <<[text |-> TextTimeoutWord, label |-> LabelOrder[1]],
      [text |-> TextTimeoutWord, label |-> LabelOrder[1]]>>
OneSample == <<[text |-> TextTimeoutWord, label |-> LabelOrder[1]]>>

\* bodies of the /train requests
TrainRequests == {TwoClasses, OneClass, OneSample}

InitIngest ==
    /\ taxonomyFile \in {FileMissing, TaxonomyA}
    /\ rules = LoadTaxonomy(<<>>, taxonomyFile).rules
    /\ loadOutcome = "ok"
    /\ ruleResult = None
    /\ available \in BOOLEAN
    /\ enableMl \in BOOLEAN
    /\ mlEnabled = enableMl
    /\ ml = Untrained
    /\ trainCalls = 0
    /\ trainInput = <<>>
    /\ trainOutcome = "none"
    /\ mlResult = None
    /\ events = <<>>
    /\ pc = "imported"
    /\ record = None
    /\ summary = None
    /\ AttrIdle
    /\ NormIdle
    /\ ConcIdle

\* train_ml_model: POST /train
TrainMlModel ==
    /\ trainCalls < MaxTrainCalls
    /\ \E data \in TrainRequests, accepted \in BOOLEAN :
          /\ trainInput' = data
          /\ IF ~mlEnabled
             THEN /\ ml' = ml
                  /\ trainOutcome' = "deferred"
             ELSE /\ ml' = Train(available, enableMl, ml, data, trainCalls + 1, accepted).state
                  /\ trainOutcome' =
                        Train(available, enableMl, ml, data, trainCalls + 1, accepted).outcome
    /\ trainCalls' = trainCalls + 1
    /\ pc' = "trained"
    /\ UNCHANGED <<events, ruleVars, attrVars, summary, available, enableMl, mlResult, restVars>>

(***************************************************************************)
(* What the pure steps of ingest_build give for each request body, worked  *)
(* out once for all states: the handler's results depend on the state only *)
(* through the rule set and the statistical classifier.                    *)
(***************************************************************************)
\* normalizer.normalize(payload.log)
NormalizedLogs == [log \in IngestLogs |-> Normalize(log)]

\* the rule sets RuleClassifier() can hold after import
IngestRuleSets == {LoadTaxonomy(<<>>, file).rules : file \in {FileMissing, TaxonomyA}}

\* rule_classifier.classify(events)
RuleResults ==
    [d \in IngestRuleSets |-> [log \in IngestLogs |-> Classify(d, NormalizedLogs[log])]]

\* summarizer.summarize(events): one result for each order list(set) can give
Summaries ==
    [log \in IngestLogs |->
        {Summarize(NormalizedLogs[log], exceptions, tests) :
            exceptions \in Orders(ExtractExceptions(RecentEvents(NormalizedLogs[log]))),
            tests \in Orders(ExtractTests(RecentEvents(NormalizedLogs[log])))}]

\* attributor.attribute(events, payload.commits) with what it works out on the
\* way, one result for each order list(set) can give; not called for no commits
Attributions ==
    [log \in IngestLogs |-> [payload_commits \in IngestCommits |->
        IF payload_commits = <<>>
        THEN {[evidence |-> None, commit_scores |-> <<>>, attribution |-> None]}
        ELSE {[evidence |-> [stack_files |-> stack_files, test_names |-> test_names,
                             has_network_issues |-> DetectNetworkIssues(NormalizedLogs[log])],
               commit_scores |-> CommitScores(payload_commits, stack_files, test_names,
                                              DetectNetworkIssues(NormalizedLogs[log])),
               attribution |-> SelectBest(CommitScores(payload_commits, stack_files, test_names,
                                              DetectNetworkIssues(NormalizedLogs[log])),
                                          test_names)] :
                 stack_files \in Orders(ExtractStackTraceFiles(NormalizedLogs[log])),
                 test_names \in Orders(ExtractTestNames(NormalizedLogs[log]))}]]

\* ingest_build: POST /ingest.  The stored BuildRecord is `record` together
\* with rawLog, commits and events.
IngestBuild ==
    /\ \E log \in IngestLogs, payload_commits \in IngestCommits :
       \E rule_result \in {RuleResults[rules][log]} :
       \E ml_result \in IF Consulted(rule_result, ml)
                        THEN {MlClassify(available, enableMl, ml, probabilities, shapesDiffer) :
                                 probabilities \in ProbabilityVectors, shapesDiffer \in BOOLEAN}
                        ELSE {None} :
       \E final_classification \in {IF Consulted(rule_result, ml)
                                    THEN Merge(rule_result, ml_result)
                                    ELSE rule_result} :
       \E extracted \in Summaries[log], attributed \in Attributions[log][payload_commits] :
          /\ rawLog' = log
          /\ events' = NormalizedLogs[log]
          /\ ruleResult' = rule_result
          /\ mlResult' = ml_result
          /\ summary' = extracted
          /\ commits' = payload_commits
          /\ evidence' = attributed.evidence
          /\ commitScores' = attributed.commit_scores
          /\ attribution' = attributed.attribution
          /\ record' = [label |-> final_classification.label,
                        confidence |-> final_classification.confidence,
                        scores |-> final_classification.scores,
                        summary |-> extracted,
                        attribution |-> attributed.attribution,
                        response |-> [label |-> final_classification.label,
                                      confidence |-> final_classification.confidence,
                                      summary |-> extracted.summary,
                                      attribution |-> attributed.attribution]]
    /\ pc' = "ingested"
    /\ UNCHANGED <<rules, loadOutcome, taxonomyFile, again, mlEnabled, concVars,
                   available, enableMl, ml, trainCalls, trainInput, trainOutcome>>

NextIngest == SetEnableMl \/ TrainMlModel \/ IngestBuild

SpecIngest == InitIngest /\ [][NextIngest]_vars

(***************************************************************************)
(* Properties of the orchestrator.                                         *)
(***************************************************************************)
Ingested == record # None

\* final_classification of the last ingested build
FinalClassification ==
    [label |-> record.label, confidence |-> record.confidence, scores |-> record.scores]

C11_WitnessReplaced ==
    /\ Ingested
    /\ mlResult # None
    /\ FinalClassification = mlResult
    /\ FinalClassification # ruleResult

\* C16: the orchestrator applies the summarizer's update exactly once to the
\* extracted summary: the digest stored and returned for an ingested build
\* is 'Label: <final label> (<final confidence to 2 decimals>) | ' followed by
\* the extracted digest, and the summary's label and confidence are those of
\* the final classification.
C16_SummaryUpdatedOnce ==
    Ingested =>
        /\ record.summary =
              UpdateSummaryWithClassification(summary, record.label, record.confidence)
        /\ record.response.summary = record.summary.summary

\* what does hold: the summary stored and the digest returned are the
\* extracted ones, with the placeholders of summarize
C16_SummaryLeftPending ==
    Ingested =>
        /\ record.summary = summary
        /\ record.summary.label = "PENDING"
        /\ record.summary.confidence = [num |-> 0, den |-> 1]
        /\ record.response.summary = summary.summary
        /\ ~StartsWithAt(record.response.summary, 1, <<"L","a","b","e","l",":">>)

\* a build classified with confidence 0.80 was ingested and its summary still
\* carries the placeholders
C16_WitnessPending ==
    /\ Ingested
    /\ Format2(record.confidence) = <<"0", ".", "8", "0">>
    /\ record.summary.label = "PENDING"

(***************************************************************************)
(* RuleClassifier used from two threads: one runs classify(events), the    *)
(* other reload_taxonomy().  The code takes no lock, so the interpreter    *)
(* may switch threads between any two dictionary operations.  A step of    *)
(* the classifying thread is one next() on the dictionary iterator with    *)
(* the loop body that follows; a step of the loading thread is one store   *)
(* into self.rules.                                                        *)
(***************************************************************************)
MaxLoads == 2

\* scores[category] = value, scores being a dict
ScoreSet(scores, category, value) ==
    IF \E k \in 1..Len(scores) : scores[k].category = category
    THEN [k \in 1..Len(scores) |->
            IF scores[k].category = category THEN [category |-> category, score |-> value]
            ELSE scores[k]]
    ELSE Append(scores, [category |-> category, score |-> value])

HasScore(scores, category) == \E k \in 1..Len(scores) : scores[k].category = category

ScoreGet(scores, category) ==
    scores[CHOOSE k \in 1..Len(scores) : scores[k].category = category].score

\* the end of classify, from "Find best match" on
ResultOfScores(scores) ==
    LET values == [k \in 1..Len(scores) |-> scores[k].score]
    IN  IF \A k \in 1..Len(values) : values[k] = 0
        THEN [label |-> "UNCLASSIFIED", confidence |-> [num |-> 0, den |-> 1], scores |-> scores]
        ELSE [label |-> scores[ArgMaxFirst(values)].category,
              confidence |-> IF SumSeq(values) > 0
                             THEN [num |-> values[ArgMaxFirst(values)], den |-> SumSeq(values)]
                             ELSE [num |-> 0, den |-> 1],
              scores |-> scores]

\* the dictionary the iterator of the classifying thread walks: self.rules,
\* or the object self.rules was before it was assigned another one
IterDict == IF scan.detached = None THEN rules ELSE scan.detached.some

\* index of the first event from k on that the scoring loop does not skip, 0 if none
NextScored(k) == FirstOf({j \in k..Len(events) : events[j].text # <<>>})

\* the classifying thread leaves one loop over the dictionary and enters the
\* next: the scoring loop of event k or, after the last event, the end of classify
EnterEvent(k) ==
    IF NextScored(k) = 0
    THEN /\ scan' = [scan EXCEPT !.phase = "done", !.outcome = "ok", !.detached = None]
         /\ ruleResult' = ResultOfScores(scan.scores)
         /\ pc' = "scanned"
    ELSE /\ scan' = [scan EXCEPT !.phase = "score", !.event = NextScored(k), !.pos = 0,
                                 !.len = Len(rules), !.detached = None]
         /\ UNCHANGED <<ruleResult, pc>>

\* the classifying thread raises
ScanRaise(error) ==
    /\ scan' = [scan EXCEPT !.phase = "done", !.outcome = error, !.detached = None]
    /\ ruleResult' = None
    /\ pc' = "scanned"

ConcTexts == {TextError, TextConnTimeout, <<>>}

InitConc ==
    /\ events \in EventLists(ConcTexts, MaxEvents)
    /\ pc = "constructed"
    /\ taxonomyFile \in {FileMissing, TaxonomyA, TaxonomyB}
    /\ rules = LoadTaxonomy(<<>>, taxonomyFile).rules
    /\ loadOutcome = "ok"
    /\ ruleResult = None
    /\ scan = None
    /\ load = [started |-> 0, todo |-> <<>>, before |-> rules, after |-> rules]
    /\ AttrIdle
    /\ summary = None
    /\ MlIdle
    /\ NormIdle
    /\ IngestIdle

\* _load_taxonomy up to its first store: the file is read and parsed.  A
\* missing file assigns self.rules the default dictionary, a new object; the
\* iterator of the other thread keeps the old one.
BeginLoad ==
    /\ load.todo = <<>>
    /\ load.started < MaxLoads
    /\ \E file \in TaxonomyFiles :
          /\ taxonomyFile' = file
          /\ loadOutcome' = LoadTaxonomy(rules, file).outcome
          /\ load' = [started |-> load.started + 1,
                      todo |-> IF file.kind = "yaml"
                               THEN BuildRulesFromTaxonomy(<<>>, file.doc.items, "")
                               ELSE <<>>,
                      before |-> rules,
                      after |-> LoadTaxonomy(rules, file).rules]
          /\ rules' = IF file.kind = "missing" THEN DefaultTaxonomy ELSE rules
          /\ scan' = IF scan # None /\ scan.phase # "done"
                     THEN [scan EXCEPT
                             !.detached = IF file.kind = "missing" /\ scan.detached = None
                                          THEN Some(rules) ELSE @,
                             !.snapshots = @ \cup {LoadTaxonomy(rules, file).rules}]
                     ELSE scan
    /\ UNCHANGED <<events, pc, ruleResult, attrVars, summary, mlVars, normVars, ingestVars>>

\* _create_rules_for_indicators: self.rules[path] = {...}
StoreRule ==
    /\ load.todo # <<>>
    /\ rules' = DictSet(rules, Head(load.todo))
    /\ load' = [load EXCEPT !.todo = Tail(@)]
    /\ UNCHANGED <<events, pc, loadOutcome, taxonomyFile, ruleResult, scan,
                   attrVars, summary, mlVars, normVars, ingestVars>>

\* classify(events) is called: scores = {} and the iterator over self.rules.keys()
BeginClassify ==
    /\ scan = None
    /\ scan' = [phase |-> "init", event |-> 0, pos |-> 0, len |-> Len(rules),
                detached |-> None, scores |-> <<>>, outcome |-> "running",
                snapshots |-> IF load.todo = <<>> THEN {rules}
                              ELSE {load.before, load.after}]
    /\ pc' = "scanning"
    /\ UNCHANGED <<events, rules, loadOutcome, taxonomyFile, ruleResult, load,
                   attrVars, summary, mlVars, normVars, ingestVars>>

\* one next() on the iterator, which raises RuntimeError when the dictionary
\* has changed size since the iterator was made, and the loop body for the
\* item it returns: scores[category] = 0 in the first loop, scores[category]
\* += weight for every matching pattern in the scoring loop (KeyError when
\* the category is not in scores)
ScanNext ==
    /\ scan # None
    /\ scan.phase \in {"init", "score"}
    /\ IF Len(IterDict) # scan.len THEN ScanRaise("RuntimeError")
       ELSE IF scan.pos = scan.len
            THEN EnterEvent(IF scan.phase = "init" THEN 1 ELSE scan.event + 1)
       ELSE LET item == IterDict[scan.pos + 1]
                matches == CountMatches(item.patterns, events[scan.event].text)
            IN  IF scan.phase = "init"
                THEN /\ scan' = [scan EXCEPT !.pos = @ + 1,
                                             !.scores = ScoreSet(@, item.category, 0)]
                     /\ UNCHANGED <<ruleResult, pc>>
                ELSE IF matches = 0
                THEN /\ scan' = [scan EXCEPT !.pos = @ + 1]
                     /\ UNCHANGED <<ruleResult, pc>>
                ELSE IF ~HasScore(scan.scores, item.category) THEN ScanRaise("KeyError")
                ELSE /\ scan' = [scan EXCEPT
                                   !.pos = @ + 1,
                                   !.scores = ScoreSet(@, item.category,
                                       ScoreGet(@, item.category) + item.weight * matches)]
                     /\ UNCHANGED <<ruleResult, pc>>
    /\ UNCHANGED <<events, rules, loadOutcome, taxonomyFile, load,
                   attrVars, summary, mlVars, normVars, ingestVars>>

NextConc == BeginLoad \/ StoreRule \/ BeginClassify \/ ScanNext

SpecConc == InitConc /\ [][NextConc]_vars

(***************************************************************************)
(* Properties of classification next to a reload.                          *)
(***************************************************************************)
Scanned == scan # None /\ scan.phase = "done"

\* the call computed what classify computes on one of the complete rule
\* sets in force while it ran
OnSnapshot == scan.outcome = "ok" /\ \E d \in scan.snapshots : ruleResult = Classify(d, events)

\* C13: a classification that runs next to a taxonomy reload returns, without
\* failing, the result of one consistent snapshot, the complete old rule set
\* or the complete new one
C13_ConsistentSnapshot == Scanned => OnSnapshot

\* a classification no reload touched returns the result of the rule set
C13_UndisturbedScanConsistent ==
    (Scanned /\ Cardinality(scan.snapshots) = 1) => OnSnapshot

\* a reload added a category during a loop over the dictionary
C13_WitnessChangedSize ==
    Scanned /\ scan.outcome = "RuntimeError" /\ Cardinality(scan.snapshots) > 1

\* a reload added a category between the first loop and a scoring loop
C13_WitnessMissingScore ==
    Scanned /\ scan.outcome = "KeyError" /\ Cardinality(scan.snapshots) > 1

\* the call returned a result that neither the old nor the new rule set gives
C13_WitnessPartial ==
    Scanned /\ scan.outcome = "ok" /\ Cardinality(scan.snapshots) > 1 /\ ~OnSnapshot

====
